---- MODULE Spec2Model ----
(***************************************************************************)
(* A model of the judges library (quotient-ai/judges): the Judgment record *)
(* and its score normalisation, the voting methods, Jury.vote, the LLM     *)
(* gateway get_completion with its retry policy, BaseJudge._judge, the     *)
(* client configuration singleton, the command-line entry points, the      *)
(* HypoEval judges, the Auto-Judge pipeline and its metrics calculator.    *)
(*                                                                         *)
(* Python values are tagged records [t |-> type, v |-> value]; strings are *)
(* sequences of one-character strings so that str.lower() is computed.     *)
(***************************************************************************)
EXTENDS Integers, Sequences, FiniteSets, TLC

VARIABLES
    \* ---- Judgment construction (base.py, dataclass Judgment)
    j_score,        \* the score argument given to Judgment(...)
    j_reasoning,    \* the reasoning argument
    j_obj,          \* the constructed Judgment, or NoObj before construction
    \* ---- Jury (base.py, class Jury)
    judges,         \* Jury.judges: the list of judge models
    voting_method,  \* the name resolved in Jury.__init__
    vpc,            \* position of vote(): idle, loop, in_judge, returned, raised
    v_i,            \* index of the judge the for loop is at (1-based)
    judgments,      \* the local list `judgments` of vote()
    calls,          \* log: the judge indices invoked, in invocation order
    in_flight,      \* the judge indices whose judge(...) call has not ended
    returned,       \* log: what each judge returned, by judge index
    applied,        \* number of times the voting method was called
    verdict,        \* the Verdict vote() returned, or NoObj
    vote_error,     \* the exception that left vote(), or NoObj
    vote_no,        \* number of vote() calls started on this Jury
    first_vote,     \* log: the Jury's configuration and what the judges and
                    \* vote() delivered when the first vote() ended, or NoObj
    \* ---- Gateway (_client.py) and BaseJudge._judge (base.py)
    env,            \* what is installed and set where the process runs
    gc_args,        \* response_format and response_model of the get_completion call
    gc_pc,          \* get_completion: idle, attempting, returned, raised
    attempts,       \* log: the outcome of each attempt of the call, in order
    requests,       \* log: the requests sent to a backend, in order
    gc_result,      \* what get_completion delivered to its caller, or NoObj
    bj_pc,          \* _judge: idle, in_gateway, returned, raised
    gateway_calls,  \* number of get_completion calls made
    bj_result,      \* the (reasoning, score) pair or the exception of _judge
    cj_result,      \* the judge class whose judge(...) was called and what the
                    \* call delivered, or NoObj
    \* ---- Client configuration (config.py)
    _config,        \* the ClientConfig singleton
    cfg_supplied,   \* log: per field, the value of the last call that supplied it
    cfg_got,        \* the configuration object last handed to a caller, or NoObj
    \* ---- Voting methods called directly (voting_methods.py)
    vm_scores,      \* the scores argument
    vm_types,       \* the score_types argument
    vm_result,      \* per voting method, what the call delivered, or NoObj
    \* ---- Command-line entry points (cli.py, judges/cli/entrypoint.py)
    cli_form,       \* which main runs: "legacy" (cli.py) or "refined" (entrypoint.py)
    cli_input,      \* the json_dict / input_json argument
    cli_pc,         \* main: start, loop, parse_error, done
    cli_parse,      \* what parse_json_dict delivered and printed, or NoObj
    cli_i,          \* the entry the for loop is at (1-based)
    cli_results,    \* the list `results`
    cli_log,        \* log: per judge.judge call, the entry index and whether
                    \* the entry's error line was printed
    \* ---- HypoEval judges (graders/hypoeval.py and its duplicates)
    he_class,       \* the class whose judge(...) runs
    he_pc,          \* judge: idle, running, returned, raised
    he_aspect,      \* index of the aspect the outer loop is at (1-based)
    he_h,           \* index of the hypothesis the inner loop is at (1-based)
    he_acc,         \* aspect_overall_score
    he_score,       \* overall_score, the string built so far
    he_calls,       \* log: per _judge call, its aspect, hypothesis and SCORE
    he_result,      \* the Judgment returned or the exception raised, or NoObj
    \* ---- Auto-Judge (autojudge/core.py, class GradingNoteProcessor)
    ag_data,        \* self.data: the rows loaded
    ag_notes,       \* self.grading_notes: "" or the rubric text
    ag_saved,       \* whether a grading-note file has been written
    ag_pc,          \* idle, structuring, rubric, evaluating, draining,
                    \* returned, raised
    ag_max_workers, \* max_workers of the evaluation under way
    ag_llm_calls,   \* number of get_llm_completion calls the operation under
                    \* way has made
    ag_futures,     \* per row, its future: pending, running, done (with the
                    \* result or exception) or collected
    ag_evals,       \* self.generated_grading_note_evals, each with the row
                    \* it was produced for
    ag_result,      \* the exception that left the operation or the metrics
                    \* it returned, or NoObj
    ag_op,          \* the public method under way or last called, "" before
    ag_ops,         \* number of public methods called so far
    ag_classifications, \* self.generated_grading_note_classifications (a
                    \* list), or NoObj while the attribute is not set
    \* ---- Metrics calculator (autojudge/metrics/compute_metrics.py)
    cm_y_true,      \* the y_true argument
    cm_y_pred,      \* the y_pred argument
    cm_obj,         \* the ComputeMetrics object built, the exception its
                    \* construction raised, or NoObj
    cm_call         \* the last metric method called, its average argument and
                    \* what it delivered, or NoObj

judgment_vars == <<j_score, j_reasoning, j_obj>>
jury_vars == <<judges, voting_method, vpc, v_i, judgments, calls, in_flight,
               returned, applied, verdict, vote_error, vote_no, first_vote>>
client_vars == <<env, gc_args, gc_pc, attempts, requests, gc_result, bj_pc,
                 gateway_calls, bj_result, cj_result>>
config_vars == <<_config, cfg_supplied, cfg_got>>
voting_vars == <<vm_scores, vm_types, vm_result>>
core_vars == <<judgment_vars, jury_vars, client_vars, config_vars>>
cli_vars == <<cli_form, cli_input, cli_pc, cli_parse, cli_i, cli_results, cli_log>>
hypo_vars == <<he_class, he_pc, he_aspect, he_h, he_acc, he_score, he_calls, he_result>>
auto_vars == <<ag_data, ag_notes, ag_saved, ag_pc, ag_max_workers, ag_llm_calls,
               ag_futures, ag_evals, ag_result, ag_op, ag_ops, ag_classifications>>
metrics_vars == <<cm_y_true, cm_y_pred, cm_obj, cm_call>>
ext_vars == <<voting_vars, cli_vars, hypo_vars, auto_vars, metrics_vars>>
vars == <<core_vars, ext_vars>>

-----------------------------------------------------------------------------
(* Bounds of the model *)

MaxIntScore == 5
MaxJudges == 3
MaxScores == 3
MaxEntries == 2
MaxRows == 2
MaxLabels == 4
MaxOps == 2
MaxVotes == 2

-----------------------------------------------------------------------------
(* Python values *)

PyNone == [t |-> "NoneType", v |-> "None"]
PyBool(b) == [t |-> "bool", v |-> b]
PyInt(n) == [t |-> "int", v |-> n]
PyStr(s) == [t |-> "str", v |-> s]
NoObj == [t |-> "absent", v |-> "absent"]
Exc(name) == [t |-> "exception", v |-> name]

IsExc(x) == x.t = "exception"

\* isinstance(x, int): bool is a subclass of int in Python
IsInstanceInt(x) == x.t \in {"int", "bool"}
IsInstanceStr(x) == x.t = "str"

LowerLetters == <<"a","b","c","d","e","f","g","h","i","j","k","l","m",
                  "n","o","p","q","r","s","t","u","v","w","x","y","z">>
UpperLetters == <<"A","B","C","D","E","F","G","H","I","J","K","L","M",
                  "N","O","P","Q","R","S","T","U","V","W","X","Y","Z">>

char_lower(c) ==
    IF \E k \in 1..Len(UpperLetters) : UpperLetters[k] = c
    THEN LowerLetters[CHOOSE k \in 1..Len(UpperLetters) : UpperLetters[k] = c]
    ELSE c

char_upper(c) ==
    IF \E k \in 1..Len(LowerLetters) : LowerLetters[k] = c
    THEN UpperLetters[CHOOSE k \in 1..Len(LowerLetters) : LowerLetters[k] = c]
    ELSE c

\* str.lower()
str_lower(s) == [k \in 1..Len(s) |-> char_lower(s[k])]

\* bool(n) for an int or a bool
py_bool(x) == IF x.t = "bool" THEN x.v ELSE x.v # 0

-----------------------------------------------------------------------------
(* Judgment: base.py lines 19-45 *)

TRUE_WORDS == {<<"y","e","s">>, <<"t","r","u","e">>, <<"1">>, <<"g","o","o","d">>}
FALSE_WORDS == {<<"n","o">>, <<"f","a","l","s","e">>, <<"0">>, <<"b","a","d">>}

\* __post_init__ comparing the score string as written, without .lower()
post_init_case_sensitive(score) ==
    IF IsInstanceStr(score)
    THEN IF score.v \in TRUE_WORDS THEN PyBool(TRUE)
         ELSE IF score.v \in FALSE_WORDS THEN PyBool(FALSE)
         ELSE score
    ELSE IF IsInstanceInt(score) THEN PyBool(py_bool(score))
    ELSE score

\* Judgment.__post_init__: the score after normalisation
post_init(score) ==
    IF IsInstanceStr(score)
    THEN IF str_lower(score.v) \in TRUE_WORDS THEN PyBool(TRUE)
         ELSE IF str_lower(score.v) \in FALSE_WORDS THEN PyBool(FALSE)
         ELSE score
    ELSE IF IsInstanceInt(score) THEN PyBool(py_bool(score))
    ELSE score

\* Judgment(score, reasoning): the dataclass __init__ followed by __post_init__
Judgment(score, reasoning) ==
    [t |-> "Judgment", v |-> [score |-> post_init(score), reasoning |-> reasoning]]

\* every spelling of word w that differs from it only in letter case
CaseVariants(w) ==
    { [k \in 1..Len(w) |-> IF k \in U THEN char_upper(w[k]) ELSE w[k]] :
        U \in SUBSET (1..Len(w)) }

OtherStrings == {<<"3">>, <<"2">>, <<>>, <<"y">>, <<"m","a","y","b","e">>,
                 <<"y","e","s"," ">>, <<"o","n">>}

ScoreStrings ==
    UNION {CaseVariants(w) : w \in TRUE_WORDS \cup FALSE_WORDS} \cup OtherStrings

ScoreInputs ==
    {PyStr(s) : s \in ScoreStrings}
        \cup {PyInt(n) : n \in (0 - 1)..MaxIntScore}
        \cup {PyBool(b) : b \in BOOLEAN}
        \cup {PyNone}

Reasonings == {"because", "Test"}

JudgmentInit ==
    /\ j_score \in ScoreInputs
    /\ j_reasoning \in Reasonings
    /\ j_obj = NoObj

JudgmentIdle ==
    /\ j_score = PyNone
    /\ j_reasoning = "Test"
    /\ j_obj = NoObj

\* the caller constructs Judgment(score=j_score, reasoning=j_reasoning)
ConstructJudgment ==
    /\ j_obj = NoObj
    /\ j_obj' = Judgment(j_score, j_reasoning)
    /\ UNCHANGED <<ext_vars, j_score, j_reasoning, jury_vars, client_vars, config_vars>>

-----------------------------------------------------------------------------
(* Voting methods: voting_methods.py.  A float is the exact rational       *)
(* <<numerator, denominator>>, reduced, with a positive denominator.       *)

RECURSIVE Gcd(_, _)
Gcd(a, b) == IF b = 0 THEN a ELSE Gcd(b, a % b)

Abs(n) == IF n < 0 THEN 0 - n ELSE n

Reduce(n, d) ==
    LET g == Gcd(Abs(n), d) IN IF g = 0 THEN <<0, 1>> ELSE <<n \div g, d \div g>>

PyFloat(n, d) == [t |-> "float", v |-> Reduce(n, d)]

Digits == <<"0","1","2","3","4","5","6","7","8","9">>
IsDigit(c) == \E k \in 1..Len(Digits) : Digits[k] = c
DigitVal(c) == (CHOOSE k \in 1..Len(Digits) : Digits[k] = c) - 1

RECURSIVE DecimalValue(_)
DecimalValue(s) ==
    IF s = <<>> THEN 0
    ELSE 10 * DecimalValue(SubSeq(s, 1, Len(s) - 1)) + DigitVal(s[Len(s)])

\* float(x) on the values of this model (its strings hold no sign, point,
\* exponent or padding, and none spells inf or nan)
py_float(x) ==
    IF x.t = "bool" THEN PyFloat(IF x.v THEN 1 ELSE 0, 1)
    ELSE IF x.t = "int" THEN PyFloat(x.v, 1)
    ELSE IF x.t = "float" THEN x
    ELSE IF x.t = "str"
         THEN IF Len(x.v) > 0 /\ \A k \in 1..Len(x.v) : IsDigit(x.v[k])
              THEN PyFloat(DecimalValue(x.v), 1)
              ELSE Exc("ValueError")
    ELSE Exc("TypeError")

\* likert_map of _normalize_score
likert_map(s) ==
    CASE s = <<"t","e","r","r","i","b","l","e">> -> PyFloat(1, 1)
      [] s = <<"b","a","d">> -> PyFloat(2, 1)
      [] s = <<"a","v","e","r","a","g","e">> -> PyFloat(3, 1)
      [] s = <<"g","o","o","d">> -> PyFloat(4, 1)
      [] s = <<"e","x","c","e","l","l","e","n","t">> -> PyFloat(5, 1)
      [] OTHER -> PyFloat(3, 1)

\* _normalize_score(score, score_type): a float, or the exception raised.
\* str(score) of a value that is no string is never a Likert word.
_normalize_score(score, score_type) ==
    IF score_type = "boolean"
    THEN IF IsInstanceStr(score) /\ str_lower(score.v) \in TRUE_WORDS THEN PyFloat(1, 1)
         ELSE IF IsInstanceStr(score) /\ str_lower(score.v) \in FALSE_WORDS THEN PyFloat(0, 1)
         ELSE py_float(score)
    ELSE IF score_type = "numerical" THEN py_float(score)
    ELSE IF score_type = "likert"
         THEN IF IsInstanceStr(score) THEN likert_map(str_lower(score.v)) ELSE PyFloat(3, 1)
    ELSE py_float(score)

Min(a, b) == IF a < b THEN a ELSE b

\* [_normalize_score(s, t) for s, t in zip(scores, score_types)]
normalized(scores, score_types) ==
    [k \in 1..Min(Len(scores), Len(score_types)) |->
        _normalize_score(scores[k], score_types[k])]

\* the exception a list comprehension leaves with: that of its first failing item
FirstExc(xs) == xs[CHOOSE k \in 1..Len(xs) : IsExc(xs[k]) /\ \A m \in 1..(k - 1) : ~IsExc(xs[m])]
AnyExc(xs) == \E k \in 1..Len(xs) : IsExc(xs[k])

RECURSIVE SumNum(_, _)
\* numerator of sum(xs) over the common denominator d
SumNum(xs, d) ==
    IF xs = <<>> THEN 0
    ELSE xs[1].v[1] * (d \div xs[1].v[2]) + SumNum(Tail(xs), d)

RECURSIVE DenProduct(_)
DenProduct(xs) == IF xs = <<>> THEN 1 ELSE xs[1].v[2] * DenProduct(Tail(xs))

\* sum(xs) / len(xs) if xs else 0.0
mean(xs) ==
    IF xs = <<>> THEN PyFloat(0, 1)
    ELSE LET d == DenProduct(xs) IN PyFloat(SumNum(xs, d), d * Len(xs))

\* x >= 0.5 for a float x
GtHalf_inclusive(x) == 2 * x.v[1] >= x.v[2]

\* x > 0.5 for a float x
GtHalf(x) == 2 * x.v[1] > x.v[2]

Count(xs, x) == Cardinality({k \in 1..Len(xs) : xs[k] = x})

\* statistics.mode (Python 3.8+): the first value met among the most common
\* ones; StatisticsError on empty data
mode(xs) ==
    IF xs = <<>> THEN Exc("StatisticsError")
    ELSE xs[CHOOSE k \in 1..Len(xs) :
                /\ \A m \in 1..Len(xs) : Count(xs, xs[m]) <= Count(xs, xs[k])
                /\ \A m \in 1..(k - 1) : Count(xs, xs[m]) < Count(xs, xs[k])]

AllBoolean(score_types) == \A k \in 1..Len(score_types) : score_types[k] = "boolean"

average_voting(scores, score_types) ==
    LET ns == normalized(scores, score_types) IN
    IF AnyExc(ns) THEN FirstExc(ns)
    ELSE IF AllBoolean(score_types) THEN PyBool(GtHalf(mean(ns)))
    ELSE mean(ns)

majority_voting(scores, score_types) ==
    LET ns == normalized(scores, score_types)
        vote == IF IsExc(mode(ns)) THEN mean(ns) ELSE mode(ns)
    IN  IF AnyExc(ns) THEN FirstExc(ns)
        ELSE IF AllBoolean(score_types) THEN PyBool(GtHalf(vote))
        ELSE vote

\* a <= b for floats
FLeq(a, b) == a.v[1] * b.v[2] <= b.v[1] * a.v[2]

\* sorted(xs)
sorted(xs) ==
    LET n == Len(xs)
        perm == CHOOSE f \in [1..n -> 1..n] :
                    /\ \A a, b \in 1..n : a # b => f[a] # f[b]
                    /\ \A a, b \in 1..n : a < b => FLeq(xs[f[a]], xs[f[b]])
    IN  [k \in 1..n |-> xs[perm[k]]]

\* statistics.median: StatisticsError on empty data
median(xs) ==
    LET n == Len(xs)
        ys == sorted(xs)
    IN  IF n = 0 THEN Exc("StatisticsError")
        ELSE IF n % 2 = 1 THEN ys[(n \div 2) + 1]
        ELSE mean(<<ys[n \div 2], ys[(n \div 2) + 1]>>)

median_voting(scores, score_types) ==
    LET ns == normalized(scores, score_types)
        med == IF ns = <<>> THEN PyFloat(0, 1) ELSE median(ns)
    IN  IF AnyExc(ns) THEN FirstExc(ns)
        ELSE IF AllBoolean(score_types) THEN PyBool(GtHalf(med))
        ELSE med

\* sum(score * weight for score, weight in zip(xs, ws)) / sum(ws), 0.0 when
\* sum(ws) is 0; the weights are floats
weighted_mean(xs, ws) ==
    LET n == Min(Len(xs), Len(ws))
        prod == [k \in 1..n |-> PyFloat(xs[k].v[1] * ws[k].v[1], xs[k].v[2] * ws[k].v[2])]
        sw == SumNum(ws, DenProduct(ws))
        sp == SumNum(prod, DenProduct(prod))
    IN  IF sw = 0 THEN PyFloat(0, 1)
        ELSE IF sw > 0 THEN PyFloat(sp * DenProduct(ws), DenProduct(prod) * sw)
        ELSE PyFloat((0 - sp) * DenProduct(ws), DenProduct(prod) * (0 - sw))

weighted_average_voting(scores, weights, score_types) ==
    LET ns == normalized(scores, score_types) IN
    IF Len(scores) # Len(weights) \/ Len(scores) # Len(score_types) THEN Exc("ValueError")
    ELSE IF AnyExc(ns) THEN FirstExc(ns)
    ELSE IF AllBoolean(score_types) THEN PyBool(GtHalf(weighted_mean(ns, weights)))
    ELSE weighted_mean(ns, weights)

\* AVAILABLE_VOTING_METHODS: the names Jury.__init__ can resolve
AVAILABLE_VOTING_METHODS == {"average", "median", "majority", "weighted_average"}

\* the parameters of each voting method; none has a default value
VotingParams(name) ==
    IF name = "weighted_average" THEN {"scores", "weights", "score_types"}
    ELSE {"scores", "score_types"}

\* the body of the voting method `name` run on bound arguments
VotingBody(name, args) ==
    CASE name = "average" -> average_voting(args.scores, args.score_types)
      [] name = "median" -> median_voting(args.scores, args.score_types)
      [] name = "majority" -> majority_voting(args.scores, args.score_types)
      [] name = "weighted_average" ->
            weighted_average_voting(args.scores, args.weights, args.score_types)

\* Python's call of voting method `name` with keyword arguments kwargs (a
\* record): a required parameter left unbound is a TypeError raised before
\* the body runs
call_voting_method(name, kwargs) ==
    IF VotingParams(name) \subseteq DOMAIN kwargs
    THEN VotingBody(name, kwargs)
    ELSE Exc("TypeError")

\* the voting methods that take scores and score_types only
DirectMethods == {"average", "median", "majority"}

\* the scores and score types a caller hands to a voting method: up to
\* MaxScores scores, one type per score
VotingInit ==
    /\ \E n \in 0..MaxScores :
          /\ vm_scores \in [1..n -> {PyBool(TRUE), PyBool(FALSE), PyInt(MaxIntScore),
                                     PyStr(<<"y","e","s">>), PyStr(<<"n","o">>)}]
          /\ vm_types \in [1..n -> {"boolean", "numerical"}]
    /\ vm_result = [m \in DirectMethods |-> NoObj]

VotingIdle ==
    /\ vm_scores = <<>>
    /\ vm_types = <<>>
    /\ vm_result = [m \in DirectMethods |-> NoObj]

\* the caller runs voting method `name` on (vm_scores, vm_types)
CallVotingMethod(name) ==
    /\ vm_result[name] = NoObj
    /\ vm_result' = [vm_result EXCEPT ![name] =
            call_voting_method(name, [scores |-> vm_scores, score_types |-> vm_types])]
    /\ UNCHANGED <<vm_scores, vm_types, core_vars, cli_vars, hypo_vars, auto_vars,
                   metrics_vars>>

-----------------------------------------------------------------------------
(* Jury: base.py lines 178-250 *)

Verdict(score, js) == [t |-> "Verdict", v |-> [score |-> score, judgments |-> js]]

JudgeModels == {"gpt-4o", "gpt-4o-mini"}

\* the scores a judge's implementation may hand to Judgment(...)
JudgeScores == {PyBool(TRUE), PyBool(FALSE), PyStr(<<"N","o">>), PyInt(3), PyStr(<<"3">>)}

JudgeErrors == {"RetryError", "KeyError"}

JuryIdle ==
    /\ judges = <<>>
    /\ voting_method = "majority"
    /\ vpc = "idle"
    /\ v_i = 1
    /\ judgments = <<>>
    /\ calls = <<>>
    /\ in_flight = {}
    /\ returned = <<>>
    /\ applied = 0
    /\ verdict = NoObj
    /\ vote_error = NoObj
    /\ vote_no = 0
    /\ first_vote = NoObj

\* Jury.__init__ (lines 201-213) with any judge list and any known method
JuryInit ==
    /\ judges \in UNION {[1..n -> JudgeModels] : n \in 0..MaxJudges}
    /\ voting_method \in AVAILABLE_VOTING_METHODS
    /\ vpc = "idle"
    /\ v_i = 1
    /\ judgments = <<>>
    /\ calls = <<>>
    /\ in_flight = {}
    /\ returned = <<>>
    /\ applied = 0
    /\ verdict = NoObj
    /\ vote_error = NoObj
    /\ vote_no = 0
    /\ first_vote = NoObj

\* vote(), line 238: judgments = [].  A later vote() on the same Jury starts
\* when the one before has ended; the logs then start again, the first
\* vote's outcome being kept for comparison
VoteStart ==
    /\ vpc \in {"idle", "returned", "raised"}
    /\ vote_no < MaxVotes
    /\ vpc = "idle" <=> vote_no = 0
    /\ vote_no' = vote_no + 1
    /\ first_vote' = IF vote_no = 1
                     THEN [judges |-> judges, voting_method |-> voting_method,
                           returned |-> returned, verdict |-> verdict,
                           vote_error |-> vote_error]
                     ELSE first_vote
    /\ vpc' = "loop"
    /\ judgments' = <<>>
    /\ v_i' = 1
    /\ calls' = IF vote_no = 0 THEN calls ELSE <<>>
    /\ returned' = IF vote_no = 0 THEN returned ELSE <<>>
    /\ applied' = IF vote_no = 0 THEN applied ELSE 0
    /\ verdict' = IF vote_no = 0 THEN verdict ELSE NoObj
    /\ vote_error' = IF vote_no = 0 THEN vote_error ELSE NoObj
    /\ UNCHANGED <<ext_vars, judges, voting_method, in_flight,
                   judgment_vars, client_vars, config_vars>>

\* the backend is idempotent: in a later vote() judge v_i is given the reply
\* it was given in the first
SameReply(reply) ==
    vote_no > 1 => (v_i <= Len(first_vote.returned) /\ first_vote.returned[v_i] = reply)

\* vote(), lines 239-244: the loop reaches judge v_i and calls its judge(...)
VoteCallJudge ==
    /\ vpc = "loop"
    /\ v_i <= Len(judges)
    /\ vpc' = "in_judge"
    /\ calls' = Append(calls, v_i)
    /\ in_flight' = in_flight \cup {v_i}
    /\ UNCHANGED <<ext_vars, vote_no, first_vote, judges, voting_method, v_i, judgments, returned, applied,
                   verdict, vote_error, judgment_vars, client_vars, config_vars>>

\* vote(), lines 240-246: judge v_i returns a Judgment, which is appended
VoteJudgeReturns(score, reasoning) ==
    /\ vpc = "in_judge"
    /\ SameReply(Judgment(score, reasoning))
    /\ vpc' = "loop"
    /\ in_flight' = in_flight \ {v_i}
    /\ returned' = Append(returned, Judgment(score, reasoning))
    /\ judgments' = Append(judgments, Judgment(score, reasoning))
    /\ v_i' = v_i + 1
    /\ UNCHANGED <<ext_vars, vote_no, first_vote, judges, voting_method, calls, applied, verdict, vote_error,
                   judgment_vars, client_vars, config_vars>>

\* judge v_i raises and vote() keeps going with the next judge
VoteJudgeRaises_swallowed(e) ==
    /\ vpc = "in_judge"
    /\ SameReply(Exc(e))
    /\ vpc' = "loop"
    /\ in_flight' = in_flight \ {v_i}
    /\ returned' = Append(returned, Exc(e))
    /\ v_i' = v_i + 1
    /\ UNCHANGED <<ext_vars, vote_no, first_vote, judges, voting_method, judgments, calls, applied, verdict,
                   vote_error, judgment_vars, client_vars, config_vars>>

\* vote(), lines 240-244: judge v_i raises; nothing catches it, vote() ends
VoteJudgeRaises(e) ==
    /\ vpc = "in_judge"
    /\ SameReply(Exc(e))
    /\ vpc' = "raised"
    /\ in_flight' = in_flight \ {v_i}
    /\ returned' = Append(returned, Exc(e))
    /\ vote_error' = Exc(e)
    /\ UNCHANGED <<ext_vars, vote_no, first_vote, judges, voting_method, v_i, judgments, calls, applied, verdict,
                   judgment_vars, client_vars, config_vars>>

\* [judgment.score for judgment in judgments]
ScoresOf(js) == [k \in 1..Len(js) |-> js[k].v.score]

\* the voting method applied as soon as the first judgment is in
VoteApply_early ==
    /\ vpc = "loop"
    /\ v_i > 1 \/ v_i > Len(judges)
    /\ applied' = applied + 1
    /\ LET score == call_voting_method(voting_method, [scores |-> ScoresOf(judgments)])
       IN  IF IsExc(score)
           THEN vpc' = "raised" /\ vote_error' = score /\ verdict' = verdict
           ELSE vpc' = "returned" /\ verdict' = Verdict(score, judgments)
                    /\ vote_error' = vote_error
    /\ UNCHANGED <<ext_vars, vote_no, first_vote, judges, voting_method, v_i, judgments, calls, in_flight,
                   returned, judgment_vars, client_vars, config_vars>>

\* vote(), lines 248-250: the loop is over; the scores are reduced with
\* self.voting_method(scores=scores) and the Verdict is returned
VoteApply ==
    /\ vpc = "loop"
    /\ v_i > Len(judges)
    /\ applied' = applied + 1
    /\ LET score == call_voting_method(voting_method, [scores |-> ScoresOf(judgments)])
       IN  IF IsExc(score)
           THEN vpc' = "raised" /\ vote_error' = score /\ verdict' = verdict
           ELSE vpc' = "returned" /\ verdict' = Verdict(score, judgments)
                    /\ vote_error' = vote_error
    /\ UNCHANGED <<ext_vars, vote_no, first_vote, judges, voting_method, v_i, judgments, calls, in_flight,
                   returned, judgment_vars, client_vars, config_vars>>

-----------------------------------------------------------------------------
(* Gateway: _client.py.  One attempt is the body of get_completion; the    *)
(* tenacity decorator of lines 23-26 runs attempts until one returns or    *)
(* the stop condition holds.                                               *)

\* stop_after_attempt(5) with the ceiling one lower
stop_after_attempt_one_less == 5 - 1

\* stop=stop_after_attempt(5), line 25
stop_after_attempt == 5

\* the stop condition letting through one attempt more
stop_condition_late(attempt_number) == attempt_number > stop_after_attempt

\* tenacity's stop_after_attempt: stop once this many attempts were made
stop_condition(attempt_number) == attempt_number >= stop_after_attempt

\* tenacity without reraise=True leaves with a RetryError that holds the
\* last attempt's exception
RetryError(last) == [t |-> "RetryError", v |-> last]

IsRaised(x) == x.t \in {"exception", "RetryError"}

\* a dict value of the model reply: the two keys _judge reads, each present
\* with a value or Missing
Missing == [t |-> "missing", v |-> "missing"]
Text(s) == [t |-> "text", v |-> s]
JsonObject(reasoning, score) ==
    [t |-> "dict", v |-> [REASONING |-> reasoning, SCORE |-> score]]

\* message.content of a reply: its JSON syntax and, for valid JSON, the
\* value it denotes
InvalidJson == [syntax |-> "invalid", value |-> PyNone]
ValidJson(value) == [syntax |-> "valid", value |-> value]

ReplyScores == {PyBool(TRUE), PyStr(<<"Y","e","s">>), PyInt(3), PyNone}

Contents ==
    {InvalidJson}
        \cup {ValidJson(JsonObject(r, sc)) :
                r \in {Missing, Text("because")}, sc \in ReplyScores \cup {Missing}}
        \cup {ValidJson(v) : v \in {PyNone, PyInt(3), [t |-> "list", v |-> "array"],
                                    Text("REASONING")}}

BackendErrors == {"APIError", "Timeout"}

\* what a backend does with one request: a reply, or an exception
BackendOutcomes ==
    {[ok |-> TRUE, value |-> c] : c \in Contents}
        \cup {[ok |-> FALSE, value |-> Exc(e)] : e \in BackendErrors}

JsonObjectFormat == [t |-> "dict", v |-> "json_object"]
SomeResponseModel == [t |-> "BaseModel", v |-> "GradingNote"]

GcArgs == [response_format : {PyNone, JsonObjectFormat},
           response_model : {PyNone, SomeResponseModel}]

Envs == [litellm : BOOLEAN, completion : BOOLEAN, instructor : BOOLEAN,
         api_key : BOOLEAN]

\* an llm_client() that picks the backend the ClientConfig names
llm_client_configured(e) ==
    IF _config.client # Text("openai") /\ e.litellm THEN [t |-> "module", v |-> "litellm"]
    ELSE IF e.api_key THEN [t |-> "client", v |-> "OpenAI"]
    ELSE Exc("OpenAIError")

\* llm_client(), lines 12-20: litellm when it can be imported, else
\* openai.OpenAI(), which raises when no API key is set
llm_client(e) ==
    IF e.litellm THEN [t |-> "module", v |-> "litellm"]
    ELSE IF e.api_key THEN [t |-> "client", v |-> "OpenAI"]
    ELSE Exc("OpenAIError")

Request(backend, args) ==
    [backend |-> backend,
     response_format |-> args.response_format,
     response_model |-> args.response_model]

NoRequest == [backend |-> "none", response_format |-> PyNone, response_model |-> PyNone]

Sent(backend, args, out) ==
    [ok |-> out.ok,
     value |-> IF out.ok
               THEN [t |-> IF args.response_model # PyNone THEN "ModelInstance"
                           ELSE "ChatCompletion",
                     v |-> out.value]
               ELSE out.value,
     request |-> Request(backend, args)]

NotSent(e) == [ok |-> FALSE, value |-> Exc(e), request |-> NoRequest]

\* the body of get_completion without the check of lines 38-39
attempt_body_unchecked(e, args, out) ==
    LET client == llm_client(e) IN
    IF IsExc(client) THEN NotSent(client.v)
    ELSE IF args.response_model # PyNone /\ args.response_format = PyNone
         THEN IF ~e.instructor THEN NotSent("ImportError")
              ELSE IF client.v = "OpenAI" THEN Sent("OpenAI", args, out)
              ELSE IF ~e.completion THEN NotSent("AttributeError")
              ELSE Sent("litellm", args, out)
    ELSE IF client.v = "OpenAI" THEN Sent("OpenAI", args, out)
    ELSE IF ~e.completion THEN NotSent("Exception")
    ELSE Sent("litellm", args, out)

\* one run of the body of get_completion, lines 36-87, in environment e with
\* arguments args, the backend answering out if it is asked
attempt_body(e, args, out) ==
    LET client == llm_client(e) IN
    IF IsExc(client) THEN NotSent(client.v)
    ELSE IF args.response_format # PyNone /\ args.response_model # PyNone
         THEN NotSent("Exception")
    ELSE IF args.response_model # PyNone /\ args.response_format = PyNone
         THEN IF ~e.instructor THEN NotSent("ImportError")
              ELSE IF client.v = "OpenAI" THEN Sent("OpenAI", args, out)
              ELSE IF ~e.completion THEN NotSent("AttributeError")
              ELSE Sent("litellm", args, out)
    ELSE IF client.v = "OpenAI" THEN Sent("OpenAI", args, out)
    ELSE IF ~e.completion THEN NotSent("Exception")
    ELSE Sent("litellm", args, out)

ClientIdle ==
    /\ env = [litellm |-> TRUE, completion |-> TRUE, instructor |-> TRUE, api_key |-> TRUE]
    /\ gc_args = [response_format |-> PyNone, response_model |-> PyNone]
    /\ gc_pc = "idle"
    /\ attempts = <<>>
    /\ requests = <<>>
    /\ gc_result = NoObj
    /\ bj_pc = "idle"
    /\ gateway_calls = 0
    /\ bj_result = NoObj
    /\ cj_result = NoObj

ClientInit ==
    /\ env \in Envs
    /\ gc_args = [response_format |-> PyNone, response_model |-> PyNone]
    /\ gc_pc = "idle"
    /\ attempts = <<>>
    /\ requests = <<>>
    /\ gc_result = NoObj
    /\ bj_pc = "idle"
    /\ gateway_calls = 0
    /\ bj_result = NoObj
    /\ cj_result = NoObj

\* some caller other than _judge calls get_completion(...)
GetCompletionCall(args) ==
    /\ gc_pc = "idle"
    /\ bj_pc = "idle"
    /\ cj_result = NoObj
    /\ gc_pc' = "attempting"
    /\ gc_args' = args
    /\ gateway_calls' = gateway_calls + 1
    /\ UNCHANGED <<ext_vars, cj_result, env, attempts, requests, gc_result, bj_pc, bj_result,
                   judgment_vars, jury_vars, config_vars>>

\* one attempt under the retry decorator: the body runs; its result is
\* returned, or its exception is followed by another attempt, or, the stop
\* condition holding, by a RetryError
GetCompletionAttempt(out) ==
    /\ gc_pc = "attempting"
    /\ LET a == attempt_body(env, gc_args, out)
           attempt_number == Len(attempts) + 1
       IN  /\ attempts' = Append(attempts, [ok |-> a.ok, value |-> a.value])
           /\ requests' = IF a.request = NoRequest THEN requests
                          ELSE Append(requests, a.request)
           /\ IF a.ok
              THEN gc_pc' = "returned" /\ gc_result' = a.value
              ELSE IF stop_condition(attempt_number)
                   THEN gc_pc' = "raised" /\ gc_result' = RetryError(a.value)
                   ELSE gc_pc' = "attempting" /\ gc_result' = gc_result
    /\ UNCHANGED <<ext_vars, cj_result, env, gc_args, bj_pc, gateway_calls, bj_result,
                   judgment_vars, jury_vars, config_vars>>

-----------------------------------------------------------------------------
(* BaseJudge._judge: base.py lines 119-149 *)

\* json.loads(content): the value, or JSONDecodeError
json_loads(content) ==
    IF content.syntax = "invalid" THEN Exc("JSONDecodeError") ELSE content.value

\* data.get(key): None where data[key] raises KeyError
subscript_get(data, key) ==
    IF data.t = "dict"
    THEN (IF data.v[key] = Missing THEN PyNone ELSE data.v[key])
    ELSE Exc("TypeError")

\* data[key] for a string key: KeyError when a dict lacks it, TypeError for
\* a value that is no dict
subscript(data, key) ==
    IF data.t = "dict"
    THEN (IF data.v[key] = Missing THEN Exc("KeyError") ELSE data.v[key])
    ELSE Exc("TypeError")

\* lines 146-149: parse the reply and read the two keys
parse_reply(content) ==
    LET data == json_loads(content) IN
    IF IsExc(data) THEN data
    ELSE IF IsExc(subscript(data, "REASONING")) THEN subscript(data, "REASONING")
    ELSE IF IsExc(subscript(data, "SCORE")) THEN subscript(data, "SCORE")
    ELSE [t |-> "tuple", v |-> <<subscript(data, "REASONING"), subscript(data, "SCORE")>>]

\* lines 135-145: _judge builds the messages and calls get_completion with
\* response_model=None and response_format={"type": "json_object"}
JudgeCallsGateway ==
    /\ bj_pc = "idle"
    /\ gc_pc = "idle"
    /\ cj_result = NoObj
    /\ bj_pc' = "in_gateway"
    /\ gc_pc' = "attempting"
    /\ gc_args' = [response_format |-> JsonObjectFormat, response_model |-> PyNone]
    /\ gateway_calls' = gateway_calls + 1
    /\ UNCHANGED <<ext_vars, cj_result, env, attempts, requests, gc_result, bj_result,
                   judgment_vars, jury_vars, config_vars>>

\* lines 137-149: get_completion has ended; its exception leaves _judge,
\* or its reply is parsed
JudgeParsesReply ==
    /\ bj_pc = "in_gateway"
    /\ gc_pc \in {"returned", "raised"}
    /\ LET r == IF gc_pc = "raised" THEN gc_result ELSE parse_reply(gc_result.v)
       IN  /\ bj_result' = r
           /\ bj_pc' = IF IsRaised(r) THEN "raised" ELSE "returned"
    /\ UNCHANGED <<ext_vars, cj_result, env, gc_args, gc_pc, attempts, requests, gc_result,
                   gateway_calls, judgment_vars, jury_vars, config_vars>>

-----------------------------------------------------------------------------
(* The judge classes of classifiers/correctness.py, graders/quality.py and  *)
(* graders/relevancy.py                                                     *)

\* what judge(input, output, expected) of class cls does: the number of
\* Gateway calls it makes and what it delivers.  CorrectnessJudge.judge
\* builds its prompt and ends (lines 21-53), so it returns None; the other
\* two start with self._get_completion(...) (quality.py line 60,
\* relevancy.py line 43), an attribute neither they nor BaseJudge define
concrete_judge(cls) ==
    IF cls = "CorrectnessJudge" THEN [gateway_calls |-> 0, value |-> PyNone]
    ELSE [gateway_calls |-> 0, value |-> Exc("AttributeError")]

\* a caller runs judge(input, output, expected) of a judge of class cls, the
\* backend ready to reply with content
ConcreteJudgeCall(cls, content) ==
    /\ cj_result = NoObj
    /\ gc_pc = "idle"
    /\ bj_pc = "idle"
    /\ LET r == concrete_judge(cls)
       IN  /\ cj_result' = [class |-> cls, content |-> content, value |-> r.value]
           /\ gateway_calls' = gateway_calls + r.gateway_calls
    /\ UNCHANGED <<ext_vars, env, gc_args, gc_pc, attempts, requests, gc_result,
                   bj_pc, bj_result, judgment_vars, jury_vars, config_vars>>

-----------------------------------------------------------------------------
(* Client configuration: config.py *)

Clients == {Text("litellm"), Text("openai"), Text("azure"), Text("vllm")}
ApiKeys == {Text("sk-a"), Text("sk-b"), Text("sk-c")}
BaseUrls == {Text("https://a"), Text("https://b"), Text("https://c")}

\* an argument the caller left out of the call
Omitted == [t |-> "omitted", v |-> "omitted"]

\* the calls configure_client can get: each argument left out, None or a value
ConfigArgs == [client : Clients \cup {PyNone, Omitted},
               api_key : ApiKeys \cup {PyNone, Omitted},
               base_url : BaseUrls \cup {PyNone, Omitted}]

\* os.getenv("OPENAI_API_KEY") when the module is loaded, line 8
EnvApiKeys == {PyNone, Text("sk-env")}

\* ClientConfig(), lines 5-12
ClientConfig(env_key) ==
    [client |-> Text("litellm"), api_key |-> env_key, base_url |-> PyNone]

\* the default values of configure_client's parameters, line 14
configure_defaults ==
    [client |-> Text("litellm"), api_key |-> PyNone, base_url |-> PyNone]

\* the value a parameter is bound to in a call
Bound(args, name) == IF args[name] = Omitted THEN configure_defaults[name] ELSE args[name]

\* configure_client, lines 25-30: the configuration after the call
configured(config, args) ==
    [name \in {"client", "api_key", "base_url"} |->
        IF Bound(args, name) # PyNone THEN Bound(args, name) ELSE config[name]]

ConfigIdle ==
    /\ _config = ClientConfig(PyNone)
    /\ cfg_supplied = ClientConfig(PyNone)
    /\ cfg_got = NoObj

ConfigInit ==
    /\ \E k \in EnvApiKeys : _config = ClientConfig(k) /\ cfg_supplied = ClientConfig(k)
    /\ cfg_got = NoObj

\* configure_client(...), lines 14-32; it returns the singleton
configure_client(args) ==
    /\ _config' = configured(_config, args)
    /\ cfg_supplied' = [name \in {"client", "api_key", "base_url"} |->
                          IF args[name] \notin {Omitted, PyNone} THEN args[name]
                          ELSE cfg_supplied[name]]
    /\ cfg_got' = _config'
    /\ UNCHANGED <<ext_vars, judgment_vars, jury_vars, client_vars>>

\* get_config(), lines 34-36
get_config ==
    /\ cfg_got' = _config
    /\ UNCHANGED <<ext_vars, _config, cfg_supplied, judgment_vars, jury_vars, client_vars>>

-----------------------------------------------------------------------------
(* The command-line entry points: cli.py (legacy form) and                  *)
(* judges/cli/entrypoint.py (refined form).  A JSON object of the dataset   *)
(* is a dict of the three keys the CLIs read, each Missing or a value; the  *)
(* entry indices printed and logged are Python's, from 0.                   *)

Entry(i, o, e) == [t |-> "dict", v |-> [input |-> i, output |-> o, expected |-> e]]

JsonList(xs) == [t |-> "list", v |-> xs]

\* the command-line argument: JSON text, or the path of a file holding JSON
\* text, of a file holding something else, or of no file; the JSON is one
\* object or an array of up to MaxEntries values
CliInputs ==
    LET values ==
            {Entry(Text("q"), Text("a"), Text("e")),
             Entry(Text("q"), Text("a"), Text("")),
             Entry(Text("q"), Text("a"), Missing),
             Entry(Text("q"), Text("a"), PyNone),
             Entry(Text("q"), Text("a"), PyInt(1)),
             Entry(PyInt(1), Text("a"), Text("e")),
             Entry(Text("q"), PyBool(TRUE), Text("e")),
             Entry(Missing, Missing, Text("e")),
             Text("x")}
        data == {e \in values : e.t = "dict"}
                    \cup {JsonList(xs) : xs \in UNION {[1..n -> values] : n \in 0..MaxEntries}}
    IN  {[source |-> src, data |-> d] : src \in {"text", "file"}, d \in data}
            \cup {[source |-> src, data |-> PyNone] : src \in {"bad_file", "no_file"}}

\* lines 27-41 of both parse_json_dict: json.loads, else the file, and a
\* single dict wrapped in a list
load_entries(inp) ==
    IF inp.source \in {"bad_file", "no_file"} THEN Exc("ValueError")
    ELSE IF inp.data.t = "dict" THEN JsonList(<<inp.data>>)
    ELSE inp.data

\* required_keys of cli.py without "expected"
required_keys_without_expected == {"input", "output"}

\* cli.py line 44
required_keys == {"input", "output", "expected"}

\* cli.py parse_json_dict, lines 12-59: the list returned or the ValueError
\* raised (with the entry and the missing keys its message names), and the
\* warnings printed on the way
cli_parse_json_dict(inp) ==
    LET loaded == load_entries(inp)
        data == loaded.v
        missing_keys(k) == {key \in required_keys : data[k].v[key] = Missing}
        invalid(k) == data[k].t # "dict" \/ missing_keys(k) # {}
        n == Len(data)
        stop == IF \E k \in 1..n : invalid(k)
                THEN CHOOSE k \in 1..n : invalid(k) /\ \A m \in 1..(k - 1) : ~invalid(m)
                ELSE n + 1
        warnings == {<<k - 1, key>> : k \in 1..(stop - 1), key \in required_keys}
    IN  IF IsExc(loaded) THEN [value |-> loaded, warnings |-> {}]
        ELSE [value |->
                IF stop = n + 1 THEN loaded
                ELSE [t |-> "exception", v |-> "ValueError", entry |-> stop - 1,
                      missing_keys |-> IF data[stop].t # "dict" THEN {}
                                       ELSE missing_keys(stop)],
              warnings |-> {w \in warnings : data[w[1] + 1].v[w[2]] = Text("")}]

\* entrypoint.py lines 11-16: pydantic's validation of one value as a Sample
\* under strict=True.  A field annotated without a default is required, so
\* a dict lacking it fails; strict mode takes only a str for str, and None or
\* a str for Optional[str]
validate_Sample(x) ==
    /\ x.t = "dict"
    /\ x.v.input.t = "text"
    /\ x.v.output.t = "text"
    /\ x.v.expected.t \in {"text", "NoneType"}

\* entrypoint.py parse_json_dict, lines 22-57: the Dataset's samples, or the
\* error raised (pydantic's ValidationError is a ValueError)
entrypoint_parse_json_dict(inp) ==
    LET loaded == load_entries(inp) IN
    IF IsExc(loaded) THEN [value |-> loaded, warnings |-> {}]
    ELSE IF \A k \in 1..Len(loaded.v) : validate_Sample(loaded.v[k])
         THEN [value |-> loaded, warnings |-> {}]
         ELSE [value |-> Exc("ValidationError"), warnings |-> {}]

CliInit ==
    /\ cli_form \in {"legacy", "refined"}
    /\ cli_input \in CliInputs
    /\ cli_pc = "start"
    /\ cli_parse = NoObj
    /\ cli_i = 1
    /\ cli_results = <<>>
    /\ cli_log = <<>>

CliIdle ==
    /\ cli_form = "legacy"
    /\ cli_input = [source |-> "no_file", data |-> PyNone]
    /\ cli_pc = "start"
    /\ cli_parse = NoObj
    /\ cli_i = 1
    /\ cli_results = <<>>
    /\ cli_log = <<>>

\* main up to the loop (cli.py lines 106-115, entrypoint.py lines 107-116):
\* the input is parsed; a ValueError is printed and main returns
CliParse ==
    /\ cli_pc = "start"
    /\ LET r == IF cli_form = "legacy" THEN cli_parse_json_dict(cli_input)
                ELSE entrypoint_parse_json_dict(cli_input)
       IN  /\ cli_parse' = r
           /\ cli_pc' = IF IsExc(r.value) THEN "parse_error" ELSE "loop"
    /\ UNCHANGED <<cli_form, cli_input, cli_i, cli_results, cli_log, core_vars,
                   voting_vars, hypo_vars, auto_vars,
                   metrics_vars>>

\* one pass of the loop abandoning the batch at an entry that raises
CliJudgeEntry_abort(outcome) ==
    /\ cli_pc = "loop"
    /\ cli_i <= Len(cli_parse.value.v)
    /\ IF IsExc(outcome)
       THEN /\ cli_pc' = "done"
            /\ cli_log' = Append(cli_log, [index |-> cli_i - 1, error |-> TRUE])
            /\ UNCHANGED <<cli_i, cli_results>>
       ELSE /\ cli_i' = cli_i + 1
            /\ cli_log' = Append(cli_log, [index |-> cli_i - 1, error |-> FALSE])
            /\ cli_results' = Append(cli_results,
                    [entry |-> cli_parse.value.v[cli_i].v, score |-> outcome.v.score,
                     reasoning |-> outcome.v.reasoning])
            /\ UNCHANGED cli_pc
    /\ UNCHANGED <<cli_form, cli_input, cli_parse, core_vars, voting_vars,
                   hypo_vars, auto_vars,
                   metrics_vars>>

\* one pass of the loop (cli.py lines 118-135, entrypoint.py lines 119-136):
\* the judge is called on the entry; its Judgment is appended to results, or
\* its exception is printed with the entry's index
CliJudgeEntry(outcome) ==
    /\ cli_pc = "loop"
    /\ cli_i <= Len(cli_parse.value.v)
    /\ cli_i' = cli_i + 1
    /\ cli_log' = Append(cli_log, [index |-> cli_i - 1, error |-> IsExc(outcome)])
    /\ cli_results' =
          IF IsExc(outcome) THEN cli_results
          ELSE Append(cli_results,
                    [entry |-> cli_parse.value.v[cli_i].v, score |-> outcome.v.score,
                     reasoning |-> outcome.v.reasoning])
    /\ UNCHANGED <<cli_form, cli_input, cli_pc, cli_parse, core_vars, voting_vars,
                   hypo_vars, auto_vars,
                   metrics_vars>>

\* the loop is over (cli.py lines 137-142, entrypoint.py lines 138-143):
\* results is written to the file or printed
CliEmit ==
    /\ cli_pc = "loop"
    /\ cli_i > Len(cli_parse.value.v)
    /\ cli_pc' = "done"
    /\ UNCHANGED <<cli_form, cli_input, cli_parse, cli_i, cli_results, cli_log,
                   core_vars, voting_vars, hypo_vars, auto_vars,
                   metrics_vars>>

-----------------------------------------------------------------------------
(* The HypoEval judges: graders/hypoeval.py (HypoEvalSummary,               *)
(* HypoEvalStory) and the same two judge bodies in                          *)
(* graders/summary_quality.py and graders/story_quality.py                  *)

\* the list `aspects` of the class's judge
aspects(cls) ==
    IF cls \in {"HypoEvalSummary", "HypoEvalSummaryQuality"}
    THEN <<<<"c","o","h","e","r","e","n","c","e">>,
         <<"c","o","n","s","i","s","t","e","n","c","y">>,
         <<"f","l","u","e","n","c","y">>,
         <<"i","n","f","o","r","m","a","t","i","v","e","n","e","s","s">>,
         <<"r","e","l","e","v","a","n","c","e">>>>
    ELSE <<<<"c","o","h","e","r","e","n","c","e">>,
         <<"c","o","m","p","l","e","x","i","t","y">>,
         <<"e","m","p","a","t","h","y">>,
         <<"e","n","g","a","g","e","m","e","n","t">>,
         <<"g","r","a","m","m","a","t","i","c","a","l","i","t","y">>,
         <<"l","i","k","a","b","i","l","i","t","y">>,
         <<"r","e","l","e","v","a","n","c","e">>,
         <<"s","u","r","p","r","i","s","e">>>>

\* len(HYPOEVAL_ASPECT_HYPOTHESIS_MAPPING[...]): every aspect of every
\* mapping lists five hypotheses
hypothesis_bank_len == 5

\* the SCORE values the model replies with for the hypotheses of one aspect
ScoreRows ==
    {<<PyInt(3), PyInt(4), PyInt(4), PyInt(5), PyInt(3)>>,
     <<PyInt(3), PyInt(4), PyFloat(43, 10), PyInt(5), PyStr(<<"4">>)>>}

\* x rounded down to one decimal place, in tenths
py_round_1_down(x) == (10 * x.v[1]) \div x.v[2]

\* round(x, 1) for a float x >= 0, in tenths: to the nearest tenth, a tie to
\* the even one
py_round_1(x) ==
    LET q == (10 * x.v[1]) \div x.v[2]
        r == (10 * x.v[1]) % x.v[2]
    IN  IF 2 * r > x.v[2] \/ (2 * r = x.v[2] /\ q % 2 = 1) THEN q + 1 ELSE q

RECURSIVE int_str(_)
\* str(n) for an int n >= 0
int_str(n) == IF n < 10 THEN <<Digits[n + 1]>> ELSE Append(int_str(n \div 10), Digits[(n % 10) + 1])

\* f"Overall score on {aspect}: {round(x, 1)}\n", tenths being round(x, 1)
score_line(aspect, tenths) ==
    <<"O","v","e","r","a","l","l"," ","s","c","o","r","e"," ","o","n"," ">>
        \o aspect \o <<":"," ">> \o int_str(tenths \div 10) \o <<".">>
        \o int_str(tenths % 10) \o <<"\n">>

HypoIdle ==
    /\ he_class = "HypoEvalSummary"
    /\ he_pc = "idle"
    /\ he_aspect = 1
    /\ he_h = 1
    /\ he_acc = PyFloat(0, 1)
    /\ he_score = <<>>
    /\ he_calls = <<>>
    /\ he_result = NoObj

HypoInit ==
    /\ he_class \in {"HypoEvalSummary", "HypoEvalStory", "HypoEvalSummaryQuality",
                     "HypoEvalStoryQuality"}
    /\ he_pc = "idle"
    /\ he_aspect = 1
    /\ he_h = 1
    /\ he_acc = PyFloat(0, 1)
    /\ he_score = <<>>
    /\ he_calls = <<>>
    /\ he_result = NoObj

\* judge(input, output) is called (hypoeval.py lines 166-170)
HypoJudgeStart ==
    /\ he_pc = "idle"
    /\ he_pc' = "running"
    /\ UNCHANGED <<he_class, he_aspect, he_h, he_acc, he_score, he_calls, he_result,
                   core_vars, voting_vars, cli_vars, auto_vars,
                   metrics_vars>>

\* one pass of the inner loop (lines 186-208): _judge returns score, which is
\* added to the aspect's score; after the aspect's last hypothesis the
\* aspect's line is appended (line 209), and after the last aspect the
\* Judgment is returned (line 211)
HypoJudgeReturns(score) ==
    /\ he_pc = "running"
    /\ \E row \in ScoreRows :
          /\ row[he_h] = score
          /\ \A k \in 1..(he_h - 1) : row[k] = he_calls[Len(he_calls) - he_h + 1 + k].score
    /\ LET x == py_float(score)
           acc == PyFloat(he_acc.v[1] * x.v[2] * hypothesis_bank_len + x.v[1] * he_acc.v[2],
                          he_acc.v[2] * x.v[2] * hypothesis_bank_len)
           last_h == he_h = hypothesis_bank_len
           last_aspect == he_aspect = Len(aspects(he_class))
           overall_score ==
                IF last_h
                THEN he_score \o score_line(aspects(he_class)[he_aspect], py_round_1(acc))
                ELSE he_score
       IN  /\ he_calls' = Append(he_calls,
                    [aspect |-> he_aspect, hypothesis |-> he_h, score |-> score])
           /\ he_score' = overall_score
           /\ he_acc' = IF last_h THEN PyFloat(0, 1) ELSE acc
           /\ he_h' = IF last_h THEN 1 ELSE he_h + 1
           /\ he_aspect' = IF last_h THEN he_aspect + 1 ELSE he_aspect
           /\ IF last_h /\ last_aspect
              THEN /\ he_pc' = "returned"
                   /\ he_result' = Judgment(PyStr(overall_score), "Test")
              ELSE UNCHANGED <<he_pc, he_result>>
    /\ UNCHANGED <<he_class, core_vars, voting_vars, cli_vars, auto_vars,
                   metrics_vars>>

\* _judge raises (the Gateway's error, or the reply cannot be parsed): the
\* exception leaves judge
HypoJudgeRaises(e) ==
    /\ he_pc = "running"
    /\ he_pc' = "raised"
    /\ he_calls' = Append(he_calls,
            [aspect |-> he_aspect, hypothesis |-> he_h, score |-> Exc(e)])
    /\ he_result' = Exc(e)
    /\ UNCHANGED <<he_class, he_aspect, he_h, he_acc, he_score, core_vars,
                   voting_vars, cli_vars, auto_vars,
                   metrics_vars>>

-----------------------------------------------------------------------------
(* Auto-Judge: autojudge/core.py, class GradingNoteProcessor, and           *)
(* autojudge/engine/llm_engine.py.  A string built from pieces is the       *)
(* sequence of its pieces, each a non-empty string: it is empty when it has *)
(* no piece.                                                                *)

\* max_workers=5, the default of evaluate_responses_multithreaded
max_workers_default == 5

\* aggregate_feedback, lines 107-129
aggregate_feedback(data) ==
    LET RECURSIVE join(_, _)
        \* sep.join(xs) for non-empty strings xs
        join(sep, xs) ==
            IF xs = <<>> THEN <<>>
            ELSE IF Len(xs) = 1 THEN xs
            ELSE <<xs[1], sep>> \o join(sep, Tail(xs))
        bad_data_points == SelectSeq(data, LAMBDA row : row.label = 0)
        with_feedback == SelectSeq(bad_data_points, LAMBDA row : row.feedback # "")
    IN  IF bad_data_points = <<>> THEN <<>>
        ELSE <<" - ">> \o join("\n - ", [k \in 1..Len(with_feedback) |-> with_feedback[k].feedback])

\* pydantic's construction of a GradingNote (llm_engine.py lines 25-27) from
\* keyword arguments (a record): SCORE and REASONING are required fields
GradingNote(kwargs) ==
    IF {"SCORE", "REASONING"} \subseteq DOMAIN kwargs
    THEN [t |-> "GradingNote", v |-> [SCORE |-> kwargs.SCORE, REASONING |-> kwargs.REASONING]]
    ELSE Exc("ValidationError")

\* process_single_response, lines 250-271, the LLM answering llm if it is
\* asked: what the row's future ends with
process_single_response(row, llm) ==
    IF row.completion = ""
    THEN GradingNote([Classification |-> FALSE, Explanation |-> "No response provided"])
    ELSE IF IsExc(llm)
         THEN GradingNote([Classification |-> FALSE, Explanation |-> "LLM Error"])
         ELSE llm

\* a processor after load_data: the rows a dataset can hold have a label 0 or
\* 1, a feedback and a completion, each empty or not
AutoInit ==
    /\ LET Rows == [label : {0, 1}, feedback : {"", "f"}, completion : {"", "c"}]
       IN  ag_data \in UNION {[1..n -> Rows] : n \in 0..MaxRows}
    /\ ag_notes = ""
    /\ ag_saved = FALSE
    /\ ag_pc = "idle"
    /\ ag_max_workers = max_workers_default
    /\ ag_llm_calls = 0
    /\ ag_futures = <<>>
    /\ ag_evals = <<>>
    /\ ag_result = NoObj
    /\ ag_op = ""
    /\ ag_ops = 0
    /\ ag_classifications = NoObj

AutoIdle ==
    /\ ag_data = <<>>
    /\ ag_notes = ""
    /\ ag_saved = FALSE
    /\ ag_pc = "idle"
    /\ ag_max_workers = max_workers_default
    /\ ag_llm_calls = 0
    /\ ag_futures = <<>>
    /\ ag_evals = <<>>
    /\ ag_result = NoObj
    /\ ag_op = ""
    /\ ag_ops = 0
    /\ ag_classifications = NoObj

\* run_pipeline up to its first LLM call, lines 329-347
RunPipeline ==
    /\ ag_pc = "idle"
    /\ ag_op' = "run_pipeline"
    /\ ag_ops' = ag_ops + 1
    /\ IF ag_data = <<>>
       THEN ag_pc' = "raised" /\ ag_result' = Exc("ValueError")
       ELSE IF aggregate_feedback(ag_data) = <<>>
            THEN ag_pc' = "returned" /\ ag_result' = ag_result
            ELSE ag_pc' = "structuring" /\ ag_result' = ag_result
    /\ UNCHANGED <<ag_classifications,
                   ag_data, ag_notes, ag_saved, ag_max_workers, ag_llm_calls,
                   ag_futures, ag_evals, core_vars, voting_vars, cli_vars, hypo_vars,
                   metrics_vars>>

\* generate_structured_feedback, lines 153-176 (run_pipeline line 349)
GenerateStructuredFeedback(llm) ==
    /\ ag_pc = "structuring"
    /\ ag_llm_calls' = ag_llm_calls + 1
    /\ IF IsExc(llm)
       THEN ag_pc' = "raised" /\ ag_result' = llm
       ELSE ag_pc' = "rubric" /\ ag_result' = ag_result
    /\ UNCHANGED <<ag_op, ag_ops, ag_classifications,
                   ag_data, ag_notes, ag_saved, ag_max_workers, ag_futures, ag_evals,
                   core_vars, voting_vars, cli_vars, hypo_vars,
                   metrics_vars>>

\* generate_grading_notes, save_grading_notes and the start of
\* evaluate_responses_multithreaded() (run_pipeline lines 350-353; lines
\* 178-227 and 236-275): the rubric is stored and saved, and one future per
\* row is submitted to the pool
GenerateGradingNotes(llm) ==
    /\ ag_pc = "rubric"
    /\ ag_llm_calls' = ag_llm_calls + 1
    /\ IF IsExc(llm)
       THEN /\ ag_pc' = "raised"
            /\ ag_result' = llm
            /\ UNCHANGED <<ag_notes, ag_saved, ag_futures>>
       ELSE /\ ag_notes' = "rubric"
            /\ ag_saved' = TRUE
            /\ ag_futures' = [k \in 1..Len(ag_data) |-> [state |-> "pending", value |-> NoObj]]
            /\ ag_pc' = "evaluating"
            /\ ag_result' = ag_result
    /\ UNCHANGED <<ag_op, ag_ops, ag_classifications,
                   ag_data, ag_max_workers, ag_evals, core_vars, voting_vars, cli_vars,
                   hypo_vars,
                   metrics_vars>>

\* a pool that starts a thread for every submitted row
WorkerStarts_unbounded(i) ==
    /\ ag_pc \in {"evaluating", "draining"}
    /\ i \in DOMAIN ag_futures
    /\ ag_futures[i].state = "pending"
    /\ ag_futures' = [ag_futures EXCEPT ![i].state = "running"]
    /\ UNCHANGED <<ag_op, ag_ops, ag_classifications,
                   ag_data, ag_notes, ag_saved, ag_pc, ag_max_workers, ag_llm_calls,
                   ag_evals, ag_result, core_vars, voting_vars, cli_vars, hypo_vars,
                   metrics_vars>>

\* a free worker thread of the pool takes the next submitted row
WorkerStarts(i) ==
    /\ ag_pc \in {"evaluating", "draining"}
    /\ i \in DOMAIN ag_futures
    /\ ag_futures[i].state = "pending"
    /\ \A k \in 1..(i - 1) : ag_futures[k].state # "pending"
    /\ Cardinality({k \in DOMAIN ag_futures : ag_futures[k].state = "running"})
            < ag_max_workers
    /\ ag_futures' = [ag_futures EXCEPT ![i].state = "running"]
    /\ UNCHANGED <<ag_op, ag_ops, ag_classifications,
                   ag_data, ag_notes, ag_saved, ag_pc, ag_max_workers, ag_llm_calls,
                   ag_evals, ag_result, core_vars, voting_vars, cli_vars, hypo_vars,
                   metrics_vars>>

\* the worker ends process_single_response(row): the row's future is done,
\* with a result or with the exception that left the function
WorkerFinishes(i, llm) ==
    /\ ag_pc \in {"evaluating", "draining"}
    /\ i \in DOMAIN ag_futures
    /\ ag_futures[i].state = "running"
    /\ ag_futures' = [ag_futures EXCEPT
            ![i] = [state |-> "done", value |-> process_single_response(ag_data[i], llm)]]
    /\ ag_llm_calls' = IF ag_data[i].completion = "" THEN ag_llm_calls ELSE ag_llm_calls + 1
    /\ UNCHANGED <<ag_op, ag_ops, ag_classifications,
                   ag_data, ag_notes, ag_saved, ag_pc, ag_max_workers, ag_evals,
                   ag_result, core_vars, voting_vars, cli_vars, hypo_vars,
                   metrics_vars>>

\* lines 276-278: as_completed hands the main thread a finished future;
\* its result is appended, or its exception leaves the loop.  After the last
\* result the step returns, to its caller's next statement when run_pipeline
\* or generate_evaluation_api called it
CollectResult(i) ==
    /\ ag_pc = "evaluating"
    /\ i \in DOMAIN ag_futures
    /\ ag_futures[i].state = "done"
    /\ ag_futures' = [ag_futures EXCEPT ![i].state = "collected"]
    /\ IF IsExc(ag_futures[i].value)
       THEN /\ ag_pc' = "draining"
            /\ ag_result' = ag_futures[i].value
            /\ UNCHANGED ag_evals
       ELSE /\ ag_evals' = Append(ag_evals, [row |-> i, note |-> ag_futures[i].value])
            /\ ag_pc' = IF \E k \in DOMAIN ag_futures : k # i /\ ag_futures[k].state # "collected"
                        THEN "evaluating"
                        ELSE IF ag_op = "evaluate_responses_multithreaded" THEN "returned"
                        ELSE "evaluated"
            /\ UNCHANGED ag_result
    /\ UNCHANGED <<ag_op, ag_ops, ag_classifications,
                   ag_data, ag_notes, ag_saved, ag_max_workers, ag_llm_calls,
                   core_vars, voting_vars, cli_vars, hypo_vars,
                   metrics_vars>>

\* lines 274 and 281-283: leaving the with block on an exception waits for
\* every submitted future to end; then the exception is logged and raised
EvaluationRaises ==
    /\ ag_pc = "draining"
    /\ \A k \in DOMAIN ag_futures : ag_futures[k].state \in {"done", "collected"}
    /\ ag_pc' = "raised"
    /\ UNCHANGED <<ag_op, ag_ops, ag_classifications,
                   ag_data, ag_notes, ag_saved, ag_max_workers, ag_llm_calls, ag_futures,
                   ag_evals, ag_result, core_vars, voting_vars, cli_vars, hypo_vars,
                   metrics_vars>>

-----------------------------------------------------------------------------
(* Metrics calculator: autojudge/metrics/compute_metrics.py.  Labels are   *)
(* integers; a metric is a float, the exact rational of the voting methods. *)

RECURSIVE SumSeq(_)
\* sum(xs) for integers xs
SumSeq(xs) == IF xs = <<>> THEN 0 ELSE xs[1] + SumSeq(Tail(xs))

\* a constructor that refuses only a y_true longer than y_pred
ComputeMetrics_longer_only(y_true, y_pred) ==
    LET seen == {y_true[k] : k \in DOMAIN y_true} \cup {y_pred[k] : k \in DOMAIN y_pred}
        classes == CHOOSE cs \in [1..Cardinality(seen) -> seen] :
                        \A a, b \in 1..Cardinality(seen) : a < b => cs[a] < cs[b]
        matrix == [cls \in seen |-> [pred_cls \in seen |->
                    Cardinality({k \in DOMAIN y_true : y_true[k] = cls /\ y_pred[k] = pred_cls})]]
    IN  IF Len(y_true) > Len(y_pred) THEN Exc("ValueError")
        ELSE [t |-> "ComputeMetrics", y_true |-> y_true, y_pred |-> y_pred,
              classes |-> classes, confusion_matrix |-> matrix]

\* ComputeMetrics(y_true, y_pred), lines 11-37: the object, with its sorted
\* class list and its confusion matrix, or the exception raised
ComputeMetrics(y_true, y_pred) ==
    LET seen == {y_true[k] : k \in DOMAIN y_true} \cup {y_pred[k] : k \in DOMAIN y_pred}
        classes == CHOOSE cs \in [1..Cardinality(seen) -> seen] :
                        \A a, b \in 1..Cardinality(seen) : a < b => cs[a] < cs[b]
        matrix == [cls \in seen |-> [pred_cls \in seen |->
                    Cardinality({k \in DOMAIN y_true : y_true[k] = cls /\ y_pred[k] = pred_cls})]]
    IN  IF Len(y_true) # Len(y_pred) THEN Exc("ValueError")
        ELSE [t |-> "ComputeMetrics", y_true |-> y_true, y_pred |-> y_pred,
              classes |-> classes, confusion_matrix |-> matrix]

\* TP / (TP + FP) if (TP + FP) != 0 else 0.0 for the class cls (lines 59-61
\* and 66-68)
class_precision(self, cls) ==
    LET TP == self.confusion_matrix[cls][cls]
        FP == SumSeq([k \in DOMAIN self.classes |->
                        self.confusion_matrix[self.classes[k]][cls]]) - TP
    IN  IF TP + FP # 0 THEN PyFloat(TP, TP + FP) ELSE PyFloat(0, 1)

\* TP / (TP + FN) if (TP + FN) != 0 else 0.0 for the class cls (lines 99-101
\* and 106-108)
class_recall(self, cls) ==
    LET TP == self.confusion_matrix[cls][cls]
        FN == SumSeq([k \in DOMAIN self.classes |->
                        self.confusion_matrix[cls][self.classes[k]]]) - TP
    IN  IF TP + FN # 0 THEN PyFloat(TP, TP + FN) ELSE PyFloat(0, 1)

\* prec * rec / (prec + rec): the harmonic mean without its factor 2
f1_score_halved(prec, rec) ==
    IF prec.v[1] = 0 /\ rec.v[1] = 0 THEN PyFloat(0, 1)
    ELSE PyFloat(prec.v[1] * rec.v[1], prec.v[1] * rec.v[2] + rec.v[1] * prec.v[2])

\* 2 * prec * rec / (prec + rec), 0.0 when prec + rec is 0 (lines 138-141 and
\* 158-161); neither is negative
f1_score(prec, rec) ==
    IF prec.v[1] = 0 /\ rec.v[1] = 0 THEN PyFloat(0, 1)
    ELSE PyFloat(2 * prec.v[1] * rec.v[1], prec.v[1] * rec.v[2] + rec.v[1] * prec.v[2])

\* lines 71-77, 111-117, 163-169: the macro or weighted average of the
\* per-class values xs
averaged(self, xs, average) ==
    IF average = "macro"
    THEN IF self.classes = <<>> THEN Exc("ZeroDivisionError") ELSE mean(xs)
    ELSE weighted_mean(xs, [k \in DOMAIN self.classes |->
                            PyFloat(Count(self.y_true, self.classes[k]), 1)])

calculate_precision(self, average) ==
    IF average \notin {"binary", "macro", "weighted"} THEN Exc("ValueError")
    ELSE IF average = "binary"
         THEN IF Len(self.classes) # 2 THEN Exc("ValueError")
              ELSE class_precision(self, self.classes[2])
    ELSE averaged(self, [k \in DOMAIN self.classes |-> class_precision(self, self.classes[k])],
                  average)

calculate_recall(self, average) ==
    IF average \notin {"binary", "macro", "weighted"} THEN Exc("ValueError")
    ELSE IF average = "binary"
         THEN IF Len(self.classes) # 2 THEN Exc("ValueError")
              ELSE class_recall(self, self.classes[2])
    ELSE averaged(self, [k \in DOMAIN self.classes |-> class_recall(self, self.classes[k])],
                  average)

\* an F1 that gives 0.0 where binary precision is not defined
calculate_f1_lenient(self, average) ==
    IF average \notin {"binary", "macro", "weighted"} THEN Exc("ValueError")
    ELSE IF Len(self.classes) # 2 THEN PyFloat(0, 1)
    ELSE f1_score(class_precision(self, self.classes[2]), class_recall(self, self.classes[2]))

calculate_f1(self, average) ==
    LET precision == calculate_precision(self, "binary")
        recall == calculate_recall(self, "binary")
    IN  IF average \notin {"binary", "macro", "weighted"} THEN Exc("ValueError")
        ELSE IF average = "binary"
             THEN IF IsExc(precision) THEN precision
                  ELSE IF IsExc(recall) THEN recall
                  ELSE f1_score(precision, recall)
        ELSE averaged(self, [k \in DOMAIN self.classes |->
                                f1_score(class_precision(self, self.classes[k]),
                                         class_recall(self, self.classes[k]))],
                      average)

calculate_accuracy(self) ==
    LET correct == Cardinality({k \in DOMAIN self.y_true : self.y_true[k] = self.y_pred[k]})
        total == Len(self.y_true)
    IN  IF total # 0 THEN PyFloat(correct, total) ELSE PyFloat(0, 1)

\* calculate_kappa, lines 183-210: (p_o - p_e) / (1 - p_e) with
\* p_o = observed_agreement / total and p_e = agree / total ** 2
calculate_kappa(self) ==
    LET total == Len(self.y_true)
        observed_agreement ==
            Cardinality({k \in DOMAIN self.y_true : self.y_true[k] = self.y_pred[k]})
        agree == SumSeq([k \in DOMAIN self.classes |->
                    Count(self.y_true, self.classes[k]) * Count(self.y_pred, self.classes[k])])
    IN  IF total = 0 THEN PyFloat(0, 1)
        ELSE IF total * total - agree = 0 THEN PyFloat(0, 1)
        ELSE PyFloat(observed_agreement * total - agree, total * total - agree)

\* the arguments a caller can give: label lists of any two lengths
MetricsInit ==
    /\ LET Lists == UNION {[1..n -> 0..2] : n \in 0..MaxLabels}
       IN  cm_y_true \in Lists /\ cm_y_pred \in Lists
    /\ cm_obj = NoObj
    /\ cm_call = NoObj

MetricsIdle ==
    /\ cm_y_true = <<>>
    /\ cm_y_pred = <<>>
    /\ cm_obj = NoObj
    /\ cm_call = NoObj

\* one construction and one method call are followed per run: no method
\* changes the object, so what a call delivers does not depend on earlier calls
ConstructComputeMetrics ==
    /\ cm_obj = NoObj
    /\ cm_obj' = ComputeMetrics(cm_y_true, cm_y_pred)
    /\ UNCHANGED <<cm_y_true, cm_y_pred, cm_call, core_vars, voting_vars, cli_vars,
                   hypo_vars, auto_vars>>

CalculatePrecision(average) ==
    /\ cm_obj # NoObj /\ ~IsExc(cm_obj) /\ cm_call = NoObj
    /\ cm_call' = [metric |-> "precision", average |-> average,
                   value |-> calculate_precision(cm_obj, average)]
    /\ UNCHANGED <<cm_y_true, cm_y_pred, cm_obj, core_vars, voting_vars, cli_vars,
                   hypo_vars, auto_vars>>

CalculateRecall(average) ==
    /\ cm_obj # NoObj /\ ~IsExc(cm_obj) /\ cm_call = NoObj
    /\ cm_call' = [metric |-> "recall", average |-> average,
                   value |-> calculate_recall(cm_obj, average)]
    /\ UNCHANGED <<cm_y_true, cm_y_pred, cm_obj, core_vars, voting_vars, cli_vars,
                   hypo_vars, auto_vars>>

CalculateF1(average) ==
    /\ cm_obj # NoObj /\ ~IsExc(cm_obj) /\ cm_call = NoObj
    /\ cm_call' = [metric |-> "f1", average |-> average,
                   value |-> calculate_f1(cm_obj, average)]
    /\ UNCHANGED <<cm_y_true, cm_y_pred, cm_obj, core_vars, voting_vars, cli_vars,
                   hypo_vars, auto_vars>>

CalculateAccuracy ==
    /\ cm_obj # NoObj /\ ~IsExc(cm_obj) /\ cm_call = NoObj
    /\ cm_call' = [metric |-> "accuracy", average |-> "", value |-> calculate_accuracy(cm_obj)]
    /\ UNCHANGED <<cm_y_true, cm_y_pred, cm_obj, core_vars, voting_vars, cli_vars,
                   hypo_vars, auto_vars>>

CalculateKappa ==
    /\ cm_obj # NoObj /\ ~IsExc(cm_obj) /\ cm_call = NoObj
    /\ cm_call' = [metric |-> "kappa", average |-> "", value |-> calculate_kappa(cm_obj)]
    /\ UNCHANGED <<cm_y_true, cm_y_pred, cm_obj, core_vars, voting_vars, cli_vars,
                   hypo_vars, auto_vars>>

-----------------------------------------------------------------------------
(* Auto-Judge: evaluation against a given rubric and the metrics of          *)
(* autojudge/core.py.                                                       *)

\* an entry that empties the result list before it looks at the grading notes
StartEvaluation_reset_first(max_workers) ==
    /\ ag_llm_calls' = 0
    /\ ag_evals' = <<>>
    /\ IF ag_notes' = "" \/ ag_data = <<>>
       THEN /\ ag_pc' = "raised"
            /\ ag_result' = Exc("ValueError")
            /\ UNCHANGED <<ag_futures, ag_max_workers>>
       ELSE /\ ag_pc' = "evaluating"
            /\ ag_result' = NoObj
            /\ ag_futures' = [k \in 1..Len(ag_data) |-> [state |-> "pending", value |-> NoObj]]
            /\ ag_max_workers' = max_workers

\* the entry of evaluate_responses_multithreaded(max_workers), lines 229-275:
\* without grading notes ValueError is raised before anything else; without
\* rows KeyError; otherwise the result list is emptied and one future per row
\* is submitted to a pool of max_workers threads
StartEvaluation(max_workers) ==
    /\ ag_llm_calls' = 0
    /\ IF ag_notes' = ""
       THEN /\ ag_pc' = "raised"
            /\ ag_result' = Exc("ValueError")
            /\ UNCHANGED <<ag_evals, ag_futures, ag_max_workers>>
       ELSE IF ag_data = <<>>
       THEN /\ ag_pc' = "raised"
            /\ ag_result' = Exc("KeyError")
            /\ UNCHANGED <<ag_evals, ag_futures, ag_max_workers>>
       ELSE /\ ag_pc' = "evaluating"
            /\ ag_result' = NoObj
            /\ ag_evals' = <<>>
            /\ ag_futures' = [k \in 1..Len(ag_data) |-> [state |-> "pending", value |-> NoObj]]
            /\ ag_max_workers' = max_workers

\* evaluate_responses_multithreaded(max_workers) called by the user
EvaluateResponses(max_workers) ==
    /\ ag_pc \in {"idle", "returned", "raised"}
    /\ ag_ops < MaxOps
    /\ ag_op' = "evaluate_responses_multithreaded"
    /\ ag_ops' = ag_ops + 1
    /\ ag_notes' = ag_notes
    /\ StartEvaluation(max_workers)
    /\ UNCHANGED <<ag_data, ag_saved, ag_classifications, core_vars, voting_vars,
                   cli_vars, hypo_vars, metrics_vars>>

\* generate_evaluation_api(dataset, grading_note), lines 432-452, for the
\* dataset the processor holds: the list is loaded again, the note stored,
\* and the evaluation started with its default max_workers
GenerateEvaluationApi(grading_note) ==
    /\ ag_pc \in {"idle", "returned", "raised"}
    /\ ag_ops < MaxOps
    /\ ag_op' = "generate_evaluation_api"
    /\ ag_ops' = ag_ops + 1
    /\ ag_notes' = grading_note
    /\ StartEvaluation(max_workers_default)
    /\ UNCHANGED <<ag_data, ag_saved, ag_classifications, core_vars, voting_vars,
                   cli_vars, hypo_vars, metrics_vars>>

\* getattr(obj, name, default) on a pydantic model
py_getattr(obj, name, default) ==
    IF name \in DOMAIN obj.v THEN obj.v[name] ELSE default

\* extract_classifications, lines 285-296
ExtractClassifications ==
    /\ ag_pc = "evaluated"
    /\ ag_classifications' = [t |-> "list", v |-> [k \in DOMAIN ag_evals |->
            IF py_getattr(ag_evals[k].note, "Classification", FALSE) THEN 1 ELSE 0]]
    /\ ag_pc' = "extracted"
    /\ UNCHANGED <<ag_data, ag_notes, ag_saved, ag_max_workers, ag_llm_calls, ag_futures,
                   ag_evals, ag_result, ag_op, ag_ops, core_vars, voting_vars, cli_vars,
                   hypo_vars, metrics_vars>>

\* compute_metrics(), lines 298-327: the metrics dictionary, or the first
\* exception raised while it is built
compute_metrics(data, classifications) ==
    LET true_labels == [k \in DOMAIN data |-> data[k].label]
        cm == ComputeMetrics(true_labels, classifications)
        metrics == <<calculate_kappa(cm), calculate_accuracy(cm),
                     calculate_precision(cm, "binary"), calculate_recall(cm, "binary"),
                     calculate_f1(cm, "binary")>>
    IN  IF IsExc(cm) THEN cm
        ELSE IF AnyExc(metrics) THEN FirstExc(metrics)
        ELSE [t |-> "dict",
              v |-> [k \in {"Cohen's kappa", "Accuracy", "Precision", "Recall", "F1 Score"} |->
                        CASE k = "Cohen's kappa" -> metrics[1]
                          [] k = "Accuracy" -> metrics[2]
                          [] k = "Precision" -> metrics[3]
                          [] k = "Recall" -> metrics[4]
                          [] k = "F1 Score" -> metrics[5]]]

\* the last step of run_pipeline (lines 355-381, which returns None) and of
\* generate_evaluation_api (lines 457-468, which returns the metrics)
ComputeMetricsStep ==
    /\ ag_pc = "extracted"
    /\ LET metrics == compute_metrics(ag_data, ag_classifications.v)
       IN  IF IsExc(metrics)
           THEN ag_pc' = "raised" /\ ag_result' = metrics
           ELSE /\ ag_pc' = "returned"
                /\ ag_result' = IF ag_op = "run_pipeline" THEN PyNone ELSE metrics
    /\ UNCHANGED <<ag_data, ag_notes, ag_saved, ag_max_workers, ag_llm_calls, ag_futures,
                   ag_evals, ag_op, ag_ops, ag_classifications, core_vars, voting_vars,
                   cli_vars, hypo_vars, metrics_vars>>

-----------------------------------------------------------------------------
(* Specifications *)

NextJudgment == ConstructJudgment

InitJudgment == JudgmentInit /\ JuryIdle /\ ClientIdle /\ ConfigIdle
        /\ VotingIdle /\ CliIdle /\ HypoIdle /\ AutoIdle /\ MetricsIdle

SpecJudgment == InitJudgment /\ [][NextJudgment]_vars

NextJury ==
    \/ VoteStart
    \/ VoteCallJudge
    \/ \E score \in JudgeScores, reasoning \in Reasonings : VoteJudgeReturns(score, reasoning)
    \/ \E e \in JudgeErrors : VoteJudgeRaises(e)
    \/ VoteApply

InitJury == JudgmentIdle /\ JuryInit /\ ClientIdle /\ ConfigIdle
        /\ VotingIdle /\ CliIdle /\ HypoIdle /\ AutoIdle /\ MetricsIdle

SpecJury == InitJury /\ [][NextJury]_vars

NextClient ==
    \/ \E args \in GcArgs : GetCompletionCall(args)
    \/ \E out \in BackendOutcomes : GetCompletionAttempt(out)
    \/ JudgeCallsGateway
    \/ JudgeParsesReply
    \/ \E cls \in {"CorrectnessJudge", "QueryQualityJudge", "RelevancyJudge"},
         content \in Contents : ConcreteJudgeCall(cls, content)

InitClient == JudgmentIdle /\ JuryIdle /\ ClientInit /\ ConfigIdle
        /\ VotingIdle /\ CliIdle /\ HypoIdle /\ AutoIdle /\ MetricsIdle

SpecClient == InitClient /\ [][NextClient]_vars

NextConfig ==
    \/ \E args \in ConfigArgs : configure_client(args)
    \/ get_config

InitConfig == JudgmentIdle /\ JuryIdle /\ ClientIdle /\ ConfigInit
        /\ VotingIdle /\ CliIdle /\ HypoIdle /\ AutoIdle /\ MetricsIdle

SpecConfig == InitConfig /\ [][NextConfig]_vars

\* the gateway and _judge in a process whose ClientConfig is in any state
\* configure_client calls can have left it in before the gateway is used
NextGateway ==
    \/ \E args \in [client : {Text("openai"), Omitted}, api_key : {Text("sk-a"), Omitted},
                     base_url : {Text("https://a"), Omitted}] :
            gateway_calls = 0 /\ configure_client(args)
    \/ \E args \in GcArgs : GetCompletionCall(args)
    \/ \E out \in BackendOutcomes : GetCompletionAttempt(out)
    \/ JudgeCallsGateway
    \/ JudgeParsesReply

InitGateway == JudgmentIdle /\ JuryIdle /\ ClientInit /\ ConfigInit
        /\ VotingIdle /\ CliIdle /\ HypoIdle /\ AutoIdle /\ MetricsIdle

SpecGateway == InitGateway /\ [][NextGateway]_vars

NextVoting == \E name \in DirectMethods : CallVotingMethod(name)

InitVoting == JudgmentIdle /\ JuryIdle /\ ClientIdle /\ ConfigIdle
        /\ VotingInit /\ CliIdle /\ HypoIdle /\ AutoIdle /\ MetricsIdle

SpecVoting == InitVoting /\ [][NextVoting]_vars

NextCli ==
    \/ CliParse
    \/ \E outcome \in {Judgment(PyBool(TRUE), "Test"), Judgment(PyBool(FALSE), "Test"),
                        Exc("RetryError")} : CliJudgeEntry(outcome)
    \/ CliEmit

InitCli == JudgmentIdle /\ JuryIdle /\ ClientIdle /\ ConfigIdle
        /\ VotingIdle /\ CliInit /\ HypoIdle /\ AutoIdle /\ MetricsIdle

SpecCli == InitCli /\ [][NextCli]_vars

NextHypo ==
    \/ HypoJudgeStart
    \/ \E score \in UNION {{row[k] : k \in 1..Len(row)} : row \in ScoreRows} :
            HypoJudgeReturns(score)
    \/ \E e \in {"RetryError", "JSONDecodeError", "KeyError"} : HypoJudgeRaises(e)

InitHypo == JudgmentIdle /\ JuryIdle /\ ClientIdle /\ ConfigIdle
        /\ VotingIdle /\ CliIdle /\ HypoInit /\ AutoIdle /\ MetricsIdle

SpecHypo == InitHypo /\ [][NextHypo]_vars

NextAuto ==
    \/ RunPipeline
    \/ \E llm \in {Text("reply"), Exc("RetryError")} : GenerateStructuredFeedback(llm)
    \/ \E llm \in {Text("reply"), Exc("RetryError")} : GenerateGradingNotes(llm)
    \/ \E i \in 1..MaxRows : WorkerStarts(i)
    \/ \E i \in 1..MaxRows, SCORE \in BOOLEAN :
            WorkerFinishes(i, GradingNote([SCORE |-> SCORE, REASONING |-> "because"]))
    \/ \E i \in 1..MaxRows : WorkerFinishes(i, Exc("RetryError"))
    \/ \E i \in 1..MaxRows : CollectResult(i)
    \/ EvaluationRaises
    \/ ExtractClassifications
    \/ ComputeMetricsStep

InitAuto == JudgmentIdle /\ JuryIdle /\ ClientIdle /\ ConfigIdle
        /\ VotingIdle /\ CliIdle /\ HypoIdle /\ AutoInit /\ MetricsIdle

SpecAuto == InitAuto /\ [][NextAuto]_vars

NextEval ==
    \/ \E grading_note \in {"", "rubric"} : GenerateEvaluationApi(grading_note)
    \/ \E max_workers \in {1, max_workers_default} : EvaluateResponses(max_workers)
    \/ \E i \in 1..MaxRows : WorkerStarts(i)
    \/ \E i \in 1..MaxRows, SCORE \in BOOLEAN :
            WorkerFinishes(i, GradingNote([SCORE |-> SCORE, REASONING |-> "because"]))
    \/ \E i \in 1..MaxRows : WorkerFinishes(i, Exc("RetryError"))
    \/ \E i \in 1..MaxRows : CollectResult(i)
    \/ EvaluationRaises
    \/ ExtractClassifications
    \/ ComputeMetricsStep

SpecEval == InitAuto /\ [][NextEval]_vars

NextMetrics ==
    \/ ConstructComputeMetrics
    \/ \E average \in {"binary", "macro", "weighted", "micro"} :
            \/ CalculatePrecision(average)
            \/ CalculateRecall(average)
            \/ CalculateF1(average)
    \/ CalculateAccuracy
    \/ CalculateKappa

InitMetrics == JudgmentIdle /\ JuryIdle /\ ClientIdle /\ ConfigIdle
        /\ VotingIdle /\ CliIdle /\ HypoIdle /\ AutoIdle /\ MetricsInit

SpecMetrics == InitMetrics /\ [][NextMetrics]_vars

-----------------------------------------------------------------------------
(* Properties of Jury.vote, checked under SpecJury *)

\* vote() has ended, one way or the other
VoteEnded == vpc \in {"returned", "raised"}

\* every judge of the jury was called and returned a Judgment
AllJudgesReturned ==
    /\ Len(returned) = Len(judges)
    /\ \A k \in 1..Len(returned) : ~IsExc(returned[k])

\* C1: a vote in which all judges return gives back a Verdict whose
\* judgments list has len(judges) elements, judgments[i] being the Judgment
\* judge i returned.
C1_VerdictJudgmentsMatchJudges ==
    (VoteEnded /\ AllJudgesReturned /\ Len(judges) >= 1) =>
        /\ verdict.t = "Verdict"
        /\ Len(verdict.v.judgments) = Len(judges)
        /\ \A k \in 1..Len(judges) : verdict.v.judgments[k] = returned[k]

\* the boolean b was returned by strictly more than half of the judges
StrictMajority(b) ==
    2 * Cardinality({k \in 1..Len(returned) : returned[k].v.score = PyBool(b)})
        > Len(judges)

\* C2: with voting method "majority" and judges that all return boolean
\* scores, vote() returns a Verdict whose score is the boolean returned by
\* strictly more than half of the judges, and one judgment per judge.
C2_MajorityVerdict ==
    \A b \in BOOLEAN :
        (/\ VoteEnded
         /\ AllJudgesReturned
         /\ voting_method = "majority"
         /\ \A k \in 1..Len(returned) : returned[k].v.score.t = "bool"
         /\ StrictMajority(b)) =>
            /\ verdict.t = "Verdict"
            /\ verdict.v.score = PyBool(b)
            /\ Len(verdict.v.judgments) = Len(judges)

\* C9: once judge k has raised, vote() has ended with that exception: there
\* is no Verdict, the voting method was not applied, no judge after k was
\* invoked and none is running.
C9_JudgeFailureAbortsVote ==
    \A k \in 1..Len(returned) :
        IsExc(returned[k]) =>
            /\ vpc = "raised"
            /\ vote_error = returned[k]
            /\ verdict = NoObj
            /\ applied = 0
            /\ \A m \in 1..Len(calls) : calls[m] <= k
            /\ in_flight = {}

C9_Witness ==
    /\ vpc = "raised"
    /\ Len(judges) = 3
    /\ calls = <<1, 2>>
    /\ Len(returned) = 2
    /\ ~IsExc(returned[1])
    /\ IsExc(returned[2])

\* C10: the judges are invoked in list order, each at most once and one at
\* a time: judge m is called only after judge m-1 has returned; and when
\* the voting method is applied every judge has been invoked exactly once
\* and has returned.
C10_SequentialInOrder ==
    /\ calls = [k \in 1..Len(calls) |-> k]
    /\ Len(calls) <= Len(judges)
    /\ Cardinality(in_flight) <= 1
    /\ in_flight \subseteq {Len(calls)}
    /\ Len(returned) = Len(calls) - Cardinality(in_flight)
    /\ \A m \in 2..Len(calls) : ~IsExc(returned[m - 1])
    /\ applied <= 1
    /\ applied = 1 =>
        /\ calls = [k \in 1..Len(judges) |-> k]
        /\ in_flight = {}
        /\ AllJudgesReturned

C10_Witness ==
    /\ applied = 1
    /\ Len(judges) = 3
    /\ calls = <<1, 2, 3>>
    /\ AllJudgesReturned

-----------------------------------------------------------------------------
(* Properties of Judgment construction, checked under SpecJudgment *)

\* C6: a string score that equals "yes", "true", "1" or "good" up to letter
\* case is constructed as True, and one that equals "no", "false", "0" or
\* "bad" up to letter case as False.
C6_StringScoresBecomeBooleans ==
    j_obj # NoObj =>
        /\ (\E w \in {<<"y","e","s">>, <<"t","r","u","e">>, <<"1">>, <<"g","o","o","d">>} :
                j_score.t = "str" /\ j_score.v \in CaseVariants(w))
            => j_obj.v.score = PyBool(TRUE)
        /\ (\E w \in {<<"n","o">>, <<"f","a","l","s","e">>, <<"0">>, <<"b","a","d">>} :
                j_score.t = "str" /\ j_score.v \in CaseVariants(w))
            => j_obj.v.score = PyBool(FALSE)

C6_Witness ==
    /\ j_score = PyStr(<<"F","a","L","s","E">>)
    /\ j_obj.t = "Judgment"
    /\ j_obj.v.score = PyBool(FALSE)

\* Python's == between two values: booleans and integers compare by number
PyEq(a, b) ==
    IF IsInstanceInt(a) /\ IsInstanceInt(b)
    THEN (IF a.t = "bool" THEN (IF a.v THEN 1 ELSE 0) ELSE a.v)
            = (IF b.t = "bool" THEN (IF b.v THEN 1 ELSE 0) ELSE b.v)
    ELSE a = b

\* C7: a Judgment constructed with an integer score 0, 1, 2, 3 or 5, or with
\* the string "3", still compares equal to that score.
C7_NumericalScoresUnchanged ==
    (/\ j_obj # NoObj
     /\ j_score \in {PyInt(0), PyInt(1), PyInt(2), PyInt(3), PyInt(5), PyStr(<<"3">>)})
        => PyEq(j_obj.v.score, j_score)

-----------------------------------------------------------------------------
(* Properties of the gateway and of _judge, checked under SpecClient *)

\* C3: for k from 1 to 5, a call whose attempts 1..k-1 raise and whose
\* attempt k succeeds has made exactly k attempts and has returned the
\* result of attempt k; and the call gives up only after a fifth attempt.
C3_ReturnsFirstSuccess ==
    /\ \A k \in 1..5 :
        (/\ Len(attempts) >= k
         /\ attempts[k].ok
         /\ \A m \in 1..(k - 1) : ~attempts[m].ok) =>
            /\ Len(attempts) = k
            /\ gc_pc = "returned"
            /\ gc_result = attempts[k].value
    /\ gc_pc = "raised" => Len(attempts) >= 5

C3_Witness ==
    /\ Len(attempts) = 5
    /\ \A m \in 1..4 : ~attempts[m].ok
    /\ attempts[5].ok
    /\ gc_pc = "returned"
    /\ gc_result = attempts[5].value

AllAttemptsRaised == \A m \in 1..Len(attempts) : ~attempts[m].ok

\* C4 as claimed: when every attempt raises, exactly 5 attempts are made
\* and the caller gets the exception the 5th attempt raised.
C4_FifthExceptionReachesCaller ==
    /\ Len(attempts) <= 5
    /\ gc_pc = "raised" =>
        /\ Len(attempts) = 5
        /\ AllAttemptsRaised
        /\ gc_result = attempts[5].value

\* C4, amended: when every attempt raises, exactly 5 attempts are made,
\* never a 6th, and the caller gets a RetryError that holds the exception
\* the 5th attempt raised.
C4_RetryErrorAfterFiveAttempts ==
    /\ Len(attempts) <= 5
    /\ gc_pc = "raised" =>
        /\ Len(attempts) = 5
        /\ AllAttemptsRaised
        /\ gc_result = RetryError(attempts[5].value)
    /\ (Len(attempts) = 5 /\ AllAttemptsRaised) => gc_pc = "raised"
    /\ (Len(attempts) < 5 /\ AllAttemptsRaised) => gc_pc \in {"idle", "attempting"}

C4_Witness ==
    /\ gc_pc = "raised"
    /\ Len(attempts) = 5
    /\ attempts[1].value = Exc("Timeout")
    /\ attempts[5].value = Exc("APIError")
    /\ gc_result = RetryError(Exc("APIError"))

\* the reply is not valid JSON, or is a JSON object without the key
\* REASONING or without the key SCORE
UnusableReply(content) ==
    \/ content.syntax = "invalid"
    \/ /\ content.value.t = "dict"
       /\ \/ content.value.v.REASONING = Missing
          \/ content.value.v.SCORE = Missing

\* C5: when the model's reply is not valid JSON or lacks REASONING or
\* SCORE, _judge ends with an exception and no (reasoning, score) pair, and
\* the gateway was called once and made no attempt after the one that
\* brought the reply.
C5_ParseFailureRaisesUnretried ==
    (/\ bj_pc \in {"returned", "raised"}
     /\ gc_pc = "returned"
     /\ UnusableReply(gc_result.v)) =>
        /\ bj_pc = "raised"
        /\ bj_result.t = "exception"
        /\ gateway_calls = 1
        /\ \A m \in 1..Len(attempts) : attempts[m].ok <=> m = Len(attempts)
        /\ Len(requests) = Len(attempts)

C5_Witness ==
    /\ bj_pc = "raised"
    /\ bj_result = Exc("KeyError")
    /\ gc_pc = "returned"
    /\ Len(attempts) = 2
    /\ gc_result.v.value.v.REASONING # Missing
    /\ gc_result.v.value.v.SCORE = Missing

-----------------------------------------------------------------------------
(* Properties of the client configuration, checked under SpecConfig *)

\* C8: each of client, api_key and base_url holds the value of the most
\* recent configure_client call that supplied it, or its start-up default,
\* and this is the state get_config() and configure_client() hand out.
C8_OnlySuppliedFieldsChange ==
    /\ _config = cfg_supplied
    /\ cfg_got # NoObj => cfg_got = cfg_supplied

\* the call under way or ended has both response_format and response_model
BothSupplied ==
    /\ gc_pc # "idle"
    /\ gc_args.response_format # PyNone
    /\ gc_args.response_model # PyNone

C14_ConcreteJudgeReturnsJudgment ==
    (/\ cj_result # NoObj
     /\ cj_result.content.syntax = "valid"
     /\ cj_result.content.value.t = "dict"
     /\ cj_result.content.value.v.REASONING # Missing
     /\ cj_result.content.value.v.SCORE # Missing)
        => /\ gateway_calls >= 1
           /\ cj_result.value = Judgment(cj_result.content.value.v.SCORE,
                                         cj_result.content.value.v.REASONING)

-----------------------------------------------------------------------------
(* Voting methods called directly: SpecVoting *)

C12_MajorityVoting ==
    LET r == vm_result["majority"]
        ns == normalized(vm_scores, vm_types)
        n == Len(ns)
        most == {k \in 1..n : \A m \in 1..n : Count(ns, ns[m]) <= Count(ns, ns[k])}
        modes == {ns[k] : k \in most}
        chosen == IF Cardinality(modes) = 1 THEN CHOOSE x \in modes : TRUE ELSE mean(ns)
    IN  (r # NoObj /\ ~AnyExc(ns)) =>
            /\ r = IF AllBoolean(vm_types) THEN PyBool(2 * chosen.v[1] > chosen.v[2])
                                             ELSE chosen
            /\ (AllBoolean(vm_types) /\ vm_scores = <<PyBool(TRUE), PyBool(FALSE)>>)
                    => r = PyBool(FALSE)

-----------------------------------------------------------------------------
(* The command-line entry points: SpecCli *)

InputEntries == IF cli_input.data.t = "dict" THEN <<cli_input.data>> ELSE cli_input.data.v

\* parse_json_dict has run on JSON that could be read
Parsed(form) ==
    /\ cli_form = form
    /\ cli_parse # NoObj
    /\ cli_input.source \in {"text", "file"}

\* C16: the legacy CLI parse_json_dict, given a single JSON object with the
\* keys input, output and expected, returns a one-element dataset; given any
\* entry that lacks one of these keys, fails with an invalid-input error
\* naming the missing key(s); and given an entry with an empty-string value
\* for a required key, accepts the entry and emits a warning.
C16_LegacyParseJsonDict ==
    Parsed("legacy") =>
        LET keys == {"input", "output", "expected"}
            n == Len(InputEntries)
            IsDict(k) == InputEntries[k].t = "dict"
            lacking(k) == {key \in keys : InputEntries[k].v[key] = Missing}
            complete(k) == IsDict(k) /\ lacking(k) = {}
        IN  /\ (cli_input.data.t = "dict" /\ complete(1))
                    => cli_parse.value = JsonList(<<cli_input.data>>)
            /\ (\E k \in 1..n : IsDict(k) /\ lacking(k) # {})
                    => cli_parse.value.t = "exception" /\ cli_parse.value.v = "ValueError"
            /\ \A k \in 1..n :
                  (IsDict(k) /\ lacking(k) # {} /\ \A m \in 1..(k - 1) : complete(m))
                    => /\ cli_parse.value.entry = k - 1
                       /\ cli_parse.value.missing_keys = lacking(k)
            /\ (\A k \in 1..n : complete(k))
                    => /\ cli_parse.value = JsonList(InputEntries)
                       /\ \A k \in 1..n, key \in keys :
                            InputEntries[k].v[key] = Text("")
                                => <<k - 1, key>> \in cli_parse.warnings

\* a single object whose expected is the empty string was parsed into a
\* one-element dataset, with the warning for that key printed
C16_Witness ==
    /\ Parsed("legacy")
    /\ cli_input.data = Entry(Text("q"), Text("a"), Text(""))
    /\ cli_parse.value = JsonList(<<cli_input.data>>)
    /\ cli_parse.warnings = {<<0, "expected">>}

\* C17: in the refined CLI form, expected is optional per sample:
\* parse_json_dict accepts a sample that has string input and output and no
\* expected key, and it rejects (without coercing) any sample whose input,
\* output or expected has a non-string type.
C17_RefinedExpectedOptional ==
    Parsed("refined") =>
        LET n == Len(InputEntries)
            IsDict(k) == InputEntries[k].t = "dict"
            IsString(x) == x.t = "text"
            Absent(x) == x = Missing \/ x = PyNone
            WrongType(x) == ~IsString(x) /\ ~Absent(x)
        IN  /\ (\A k \in 1..n :
                    /\ IsDict(k)
                    /\ IsString(InputEntries[k].v.input)
                    /\ IsString(InputEntries[k].v.output)
                    /\ IsString(InputEntries[k].v.expected)
                            \/ InputEntries[k].v.expected = Missing)
                    => cli_parse.value = JsonList(InputEntries)
            /\ (\E k \in 1..n :
                    /\ IsDict(k)
                    /\ \E key \in {"input", "output", "expected"} :
                            WrongType(InputEntries[k].v[key]))
                    => IsExc(cli_parse.value)

-----------------------------------------------------------------------------
(* The HypoEval judges: SpecHypo *)

\* the five SCORE values logged for aspect a, as floats
AspectScores(a) ==
    [h \in 1..5 |-> py_float(he_calls[5 * (a - 1) + h].score)]

\* the arithmetic mean of aspect a's five scores to one decimal place, in
\* tenths: the number of tenths nearest to the mean
MeanToOneDecimal(a) ==
    LET m == mean(AspectScores(a)) IN
    CHOOSE t \in 0..(10 * (MaxIntScore + 1)) : 2 * Abs(10 * m.v[1] - t * m.v[2]) <= m.v[2]

RECURSIVE ScoreLines(_)
\* the score lines of the first k aspects, in the aspects' order
ScoreLines(k) ==
    IF k = 0 THEN <<>>
    ELSE ScoreLines(k - 1) \o score_line(aspects(he_class)[k], MeanToOneDecimal(k))

\* C18: for each HypoEval judge (HypoEvalSummary, HypoEvalStory and their
\* renamed duplicates), one judge(...) call issues exactly five model calls
\* per aspect, aspects in their fixed order, and the score line reported for
\* an aspect is the arithmetic mean of that aspect's five hypothesis scores
\* rounded to one decimal place (scores [3,4,4,5,3] give 3.8); the Judgment's
\* score is the composite multi-line string with one line per aspect.
C18_HypoEvalAspectScores ==
    /\ \A p \in 1..Len(he_calls) :
          /\ he_calls[p].aspect = ((p - 1) \div 5) + 1
          /\ he_calls[p].hypothesis = ((p - 1) % 5) + 1
    /\ he_pc = "returned" =>
          LET n == Len(aspects(he_class))
              text == he_result.v.score.v
          IN  /\ n = IF he_class \in {"HypoEvalSummary", "HypoEvalSummaryQuality"}
                     THEN 5 ELSE 8
              /\ Len(he_calls) = 5 * n
              /\ he_result.t = "Judgment"
              /\ he_result.v.score.t = "str"
              /\ text = ScoreLines(n)
              /\ Cardinality({k \in 1..Len(text) : text[k] = "\n"}) = n
              /\ \A a \in 1..n :
                    AspectScores(a) = [h \in 1..5 |-> PyFloat(<<3, 4, 4, 5, 3>>[h], 1)]
                        => MeanToOneDecimal(a) = 38

\* HypoEvalStory.judge has returned after forty model calls; the scores of
\* its first aspect were [3,4,4,5,3] and those of its last had the mean 4.06
C18_Witness ==
    /\ he_class = "HypoEvalStory"
    /\ he_pc = "returned"
    /\ Len(he_calls) = 40
    /\ MeanToOneDecimal(1) = 38
    /\ MeanToOneDecimal(8) = 41
    /\ he_result.v.score.v = ScoreLines(8)

\* C19: when the loaded dataset has no row with label 0 and non-empty
\* feedback (label-0 rows whose feedback is all empty included), the
\* aggregated feedback is empty and a started run_pipeline has issued no LLM
\* call and has neither produced nor saved a rubric.
C19_NoFeedbackStopsPipeline ==
    ((\A k \in DOMAIN ag_data : ~(ag_data[k].label = 0 /\ ag_data[k].feedback # ""))
        /\ ag_pc # "idle")
    => /\ aggregate_feedback(ag_data) = <<>>
       /\ ag_llm_calls = 0
       /\ ag_notes = ""
       /\ ~ag_saved

\* C20: the rubric-evaluation step, once it has ended, has returned normally
\* with one result for every row of the dataset, whichever rows' LLM calls
\* raised; no row's failure makes the step raise.
C20_FailedRowsDoNotAbortBatch ==
    ag_futures # <<>>
    => /\ ag_pc # "draining"
       /\ ag_pc \in {"evaluated", "extracted", "returned"} =>
            /\ Len(ag_evals) = Len(ag_data)
            /\ \A k \in DOMAIN ag_evals : ag_evals[k].note.t = "GradingNote"

\* the labels seen in either argument of the metrics calculator
SeenLabels ==
    {cm_y_true[k] : k \in DOMAIN cm_y_true} \cup {cm_y_pred[k] : k \in DOMAIN cm_y_pred}

\* C24: constructing ComputeMetrics raises ValueError exactly when the two
\* lists differ in length; otherwise (both empty included) the object is built
\* and its class list holds the labels seen in either list, each once, in
\* increasing order.
C24_ConstructionChecksLengths ==
    cm_obj # NoObj =>
        IF Len(cm_y_true) # Len(cm_y_pred) THEN cm_obj = Exc("ValueError")
        ELSE /\ ~IsExc(cm_obj)
             /\ {cm_obj.classes[k] : k \in DOMAIN cm_obj.classes} = SeenLabels
             /\ \A a, b \in DOMAIN cm_obj.classes : a < b => cm_obj.classes[a] < cm_obj.classes[b]

\* C24 witness: an object built from lists of equal length whose predicted
\* labels hold a class the true labels lack, three classes in all.
C24_Witness ==
    /\ cm_obj # NoObj /\ ~IsExc(cm_obj)
    /\ cm_y_true = <<2, 0, 2>> /\ cm_y_pred = <<1, 0, 2>>
    /\ cm_obj.classes = <<0, 1, 2>>

\* the number of positions where the true label satisfies T and the predicted
\* label satisfies P
Positions(T(_), P(_)) ==
    Cardinality({k \in DOMAIN cm_y_true : T(cm_y_true[k]) /\ P(cm_y_pred[k])})

\* the float x is the fraction n/d
IsFraction(x, n, d) == ~IsExc(x) /\ x.v[1] * d = n * x.v[2]

\* C25: with exactly two classes observed, accuracy is matches/n; binary
\* precision is TP/(TP+FP) and binary recall TP/(TP+FN) for the higher class,
\* 0 on a zero denominator; binary F1 is 2PR/(P+R), 0 when P+R is 0; kappa is
\* (p_o - p_e)/(1 - p_e) with p_e the sum of true_count*pred_count/n^2.  For
\* y_true=[1,0,1,0], y_pred=[1,0,0,0] they are 3/4, 1, 1/2, 2/3 and 1/2.
C25_BinaryMetrics ==
    LET n == Len(cm_y_true)
        pos == CHOOSE c \in SeenLabels : \A o \in SeenLabels : o <= c
        Is(c) == c = pos
        Not(c) == c # pos
        TP == Positions(Is, Is)
        FP == Positions(Not, Is)
        FN == Positions(Is, Not)
        matches == Cardinality({k \in DOMAIN cm_y_true : cm_y_true[k] = cm_y_pred[k]})
        P == IF TP + FP = 0 THEN <<0, 1>> ELSE <<TP, TP + FP>>
        R == IF TP + FN = 0 THEN <<0, 1>> ELSE <<TP, TP + FN>>
        chance == SumSeq([c \in 1..3 |->
                    Count(cm_y_true, c - 1) * Count(cm_y_pred, c - 1)])
        v == cm_call.value
        example == cm_y_true = <<1, 0, 1, 0>> /\ cm_y_pred = <<1, 0, 0, 0>>
    IN  (cm_call # NoObj /\ Cardinality(SeenLabels) = 2 /\ cm_call.average \in {"binary", ""})
        => /\ cm_call.metric = "accuracy" =>
                IsFraction(v, matches, n) /\ (example => v = PyFloat(3, 4))
           /\ cm_call.metric = "precision" =>
                IsFraction(v, P[1], P[2]) /\ (example => v = PyFloat(1, 1))
           /\ cm_call.metric = "recall" =>
                IsFraction(v, R[1], R[2]) /\ (example => v = PyFloat(1, 2))
           /\ cm_call.metric = "f1" =>
                /\ IF P[1] = 0 /\ R[1] = 0 THEN v = PyFloat(0, 1)
                   ELSE IsFraction(v, 2 * P[1] * R[1], P[1] * R[2] + R[1] * P[2])
                /\ example => v = PyFloat(2, 3)
           /\ cm_call.metric = "kappa" =>
                /\ IF n * n - chance = 0 THEN v = PyFloat(0, 1)
                   ELSE IsFraction(v, matches * n - chance, n * n - chance)
                /\ example => v = PyFloat(1, 2)

\* C25 witness: the spec's example, binary F1 delivered as 2/3.
C25_Witness ==
    /\ cm_y_true = <<1, 0, 1, 0>> /\ cm_y_pred = <<1, 0, 0, 0>>
    /\ cm_call # NoObj
    /\ cm_call.metric = "f1" /\ cm_call.average = "binary"
    /\ cm_call.value = PyFloat(2, 3)

\* C26: calculate_precision, calculate_recall and calculate_f1 raise ValueError
\* for an averaging mode other than binary, macro and weighted, and in binary
\* mode whenever the observed classes are not exactly two; no number is
\* returned in either case.
C26_AveragingModeChecked ==
    (cm_call # NoObj /\ cm_call.metric \in {"precision", "recall", "f1"})
    => /\ cm_call.average \notin {"binary", "macro", "weighted"}
            => cm_call.value = Exc("ValueError")
       /\ (cm_call.average = "binary" /\ Cardinality(SeenLabels) # 2)
            => cm_call.value = Exc("ValueError")

\* C26 witness: binary F1 asked of lists whose labels are all the same class.
C26_Witness ==
    /\ cm_y_true = <<1, 1>> /\ cm_y_pred = <<1, 1>>
    /\ cm_call # NoObj
    /\ cm_call.metric = "f1" /\ cm_call.average = "binary"
    /\ cm_call.value = Exc("ValueError")

\* C21: a row is classified 1 exactly when the score of its structured reply
\* is true, and 0 otherwise: each extracted classification is 1 iff the SCORE
\* of the reply it was extracted from is true.
C21_ClassificationFollowsScore ==
    ag_pc = "extracted"
    => \A k \in DOMAIN ag_classifications.v :
            ag_classifications.v[k] = IF ag_evals[k].note.v.SCORE THEN 1 ELSE 0

\* C22: at every moment at most max_workers row evaluations are running; no
\* row has two results; and when the evaluation step has returned every row
\* has exactly one result and one LLM call was made per row, whatever the
\* order in which the workers ended.
C22_BoundedPoolEveryRowOnce ==
    /\ Cardinality({k \in DOMAIN ag_futures : ag_futures[k].state = "running"})
            <= ag_max_workers
    /\ \A a, b \in DOMAIN ag_evals : a # b => ag_evals[a].row # ag_evals[b].row
    /\ ag_pc \in {"evaluated", "extracted", "returned"}
        => /\ Len(ag_evals) = Len(ag_data)
           /\ {ag_evals[k].row : k \in DOMAIN ag_evals} = DOMAIN ag_data
           /\ ag_pc = "evaluated" => ag_llm_calls = Len(ag_data)

\* C22 witness: an evaluation of two rows by a pool of one worker has
\* returned, the second row's result collected first.
C22_Witness ==
    /\ ag_op = "evaluate_responses_multithreaded"
    /\ ag_pc = "returned"
    /\ ag_max_workers = 1
    /\ Len(ag_data) = 2
    /\ Len(ag_evals) = 2
    /\ ag_evals[1].row = 2

\* C23: an evaluation started while the grading note is empty raises
\* ValueError before any LLM call and before any future is submitted, and
\* leaves the stored evaluation results and classifications as they were.
C23_EvaluationWithoutRubric ==
    [][(ag_ops' = ag_ops + 1 /\ ag_op' # "run_pipeline" /\ ag_notes' = "")
        => /\ ag_pc' = "raised"
           /\ ag_result' = Exc("ValueError")
           /\ ag_llm_calls' = 0
           /\ ag_futures' = ag_futures
           /\ ag_evals' = ag_evals
           /\ ag_classifications' = ag_classifications]_vars

\* C23 witness: results and classifications of an earlier evaluation are
\* stored, and a second evaluation, given an empty note, has raised.
C23_Witness ==
    /\ ag_ops = 2
    /\ ag_op = "generate_evaluation_api"
    /\ ag_notes = ""
    /\ ag_pc = "raised"
    /\ ag_result = Exc("ValueError")
    /\ ag_llm_calls = 0
    /\ Len(ag_evals) = 2
    /\ ag_classifications = [t |-> "list", v |-> <<0, 0>>]

\* C28: the predicted label that compute_metrics compares at position i with
\* the human label of row i is the classification produced for row i, under
\* every order in which the workers end.
C28_PredictionsAlignedWithRows ==
    ag_pc = "extracted"
    => \A k \in DOMAIN ag_classifications.v : ag_evals[k].row = k

\* C29: for a non-empty dataset whose rows all carry a completion, a non-empty
\* grading note and LLM calls that all succeed, generate_evaluation_api
\* returns a dictionary with the five metrics, single-class labels included.
C29_EvaluationApiReturnsAllMetrics ==
    (/\ ag_op = "generate_evaluation_api"
     /\ ag_pc \in {"returned", "raised"}
     /\ ag_notes # ""
     /\ ag_data # <<>>
     /\ \A k \in DOMAIN ag_data : ag_data[k].completion # ""
     /\ \A k \in DOMAIN ag_futures :
            ag_futures[k].state = "collected" /\ ag_futures[k].value.t = "GradingNote")
    => /\ ag_pc = "returned"
       /\ ag_result.t = "dict"
       /\ DOMAIN ag_result.v = {"Cohen's kappa", "Accuracy", "Precision", "Recall", "F1 Score"}

\* C27: no vote changes the Jury's judge list (the judges' models) or its
\* voting method, and a later vote in which the judges give the replies of
\* the first vote returns a Verdict equal to the Verdict the first returned:
\* same score, same judgments in the same order.
C27_JuryStatelessVoteIdempotent ==
    (vote_no > 1 /\ VoteEnded /\ AllJudgesReturned)
    => /\ judges = first_vote.judges
       /\ voting_method = first_vote.voting_method
       /\ returned = first_vote.returned
       /\ first_vote.verdict.t = "Verdict"
       /\ verdict = first_vote.verdict

====
